---- MODULE Spec2Model ----
(***************************************************************************)
(* Balanced ternary library (trit.py, integer.py) and the T3 processor     *)
(* emulator (processor.py), modelled as state machines.                    *)
(*                                                                         *)
(* A trit is one of the glyph strings "-", "0", "+".  A trit sequence is a *)
(* TLA+ sequence of glyphs, most significant trit first (index 1 here is   *)
(* index 0 of the Python list).  A call that can raise returns a record    *)
(* [raised, value]; raised = "none" means it returned normally.            *)
(***************************************************************************)
EXTENDS Integers, Sequences, FiniteSets, TLC

(***************************************************************************)
(* Bounds of the model.                                                    *)
(***************************************************************************)
\* longest trit sequence drawn as an operand of a binary operation
MaxLen == 3
\* machine integers drawn for Int(n) are -MaxInt..MaxInt
MaxInt == 10000
\* machine integers drawn for UInt(n) are -2..MaxUInt
MaxUInt == 250
\* requested lengths drawn for Trits/Register/UInt are -1..MaxWidth
MaxWidth == 5
\* longest content drawn for Trits(content, length), Register(content, length)
MaxContent == 4
\* programs handed to set_program hold at most MaxProgram instructions
MaxProgram == 1
\* run() is called at most MaxRuns times on the processor
MaxRuns == 2
\* a run() of a program that holds a jump is followed for at most MaxCycles
\* fetch/increment/execute cycles, a run of a program without jumps for at
\* most MaxCycles cycles more than the memory has slots
MaxCycles == 4
\* texts handed to set_program are within MaxText trits of the empty text
\* and of the size of the program memory
MaxText == 3
\* a Register that is assigned to has 1..MaxRegister trits
MaxRegister == 2
\* strings handed to UTF6t.encode hold at most MaxChars characters
MaxChars == 2
\* one gate instance is evaluated at most MaxCalls times
MaxCalls == 3

(***************************************************************************)
(* trit.py: glyphs and the Trit class.                                     *)
(***************************************************************************)
NEG == "-"
ZERO == "0"
POS == "+"

GLYPHS == <<NEG, ZERO, POS>>

Trit == {NEG, ZERO, POS}

INTEGERS == (NEG :> (0 - 1)) @@ (ZERO :> 0) @@ (POS :> 1)

TRIT_NEG == NEG
TRIT_ZERO == ZERO
TRIT_POS == POS

Trit_int(t) == INTEGERS[t]

Trit_neg(t) ==
    IF t = NEG THEN TRIT_POS
    ELSE IF t = POS THEN TRIT_NEG
    ELSE TRIT_ZERO

Trit_invert(t) == Trit_neg(t)

Trit_abs(t) == IF t = NEG THEN TRIT_POS ELSE t

\* mutant of Trit_lt: the glyphs are compared as characters ('+' < '-' < '0')
Trit_lt_by_glyph(x, y) ==
    LET code == ("+" :> 43) @@ ("-" :> 45) @@ ("0" :> 48)
    IN  code[x] < code[y]

Trit_lt(x, y) == Trit_int(x) < Trit_int(y)

Trit_gt(x, y) == Trit_int(x) > Trit_int(y)

Trit_and(x, y) ==
    IF NEG \in {x, y} THEN TRIT_NEG
    ELSE IF x = POS /\ y = POS THEN TRIT_POS
    ELSE TRIT_ZERO

Trit_or(x, y) ==
    IF POS \in {x, y} THEN TRIT_POS
    ELSE IF x = NEG /\ y = NEG THEN TRIT_NEG
    ELSE TRIT_ZERO

\* mutant of Trit_xor: the two non-zero outcomes are exchanged
Trit_xor_swapped(x, y) ==
    IF ZERO \in {x, y} THEN TRIT_ZERO
    ELSE IF x # y THEN TRIT_NEG
    ELSE TRIT_POS

Trit_xor(x, y) ==
    IF ZERO \in {x, y} THEN TRIT_ZERO
    ELSE IF x # y THEN TRIT_POS
    ELSE TRIT_NEG

Trit_mul(x, y) ==
    IF x = ZERO \/ y = ZERO THEN TRIT_ZERO
    ELSE IF x = y THEN TRIT_POS
    ELSE TRIT_NEG

\* Trit.add with carry None or TRIT_ZERO: the first branch of the method
Trit_add2(x, y) ==
    IF x = ZERO THEN <<y, TRIT_ZERO>>
    ELSE IF y = ZERO THEN <<x, TRIT_ZERO>>
    ELSE IF x # y THEN <<TRIT_ZERO, TRIT_ZERO>>
    ELSE <<Trit_neg(x), x>>

\* Trit.add(self, other, carry): <<sum, carry-out>>
Trit_add(x, y, carry) ==
    IF carry = TRIT_ZERO THEN Trit_add2(x, y)
    ELSE IF y = ZERO THEN Trit_add2(x, carry)
    ELSE IF x = ZERO THEN Trit_add2(y, carry)
    ELSE IF x # y THEN <<carry, TRIT_ZERO>>
    ELSE IF x # carry THEN <<y, TRIT_ZERO>>
    ELSE <<TRIT_ZERO, x>>

(***************************************************************************)
(* Results of calls that may raise, and Python list helpers.               *)
(***************************************************************************)
Ok(v) == [raised |-> "none", value |-> v]

Raise(e) == [raised |-> e, value |-> <<>>]

\* [x] * n
Repeat(x, n) == [i \in 1..n |-> x]

\* reversed(lst)
Reversed(s) == [i \in 1..Len(s) |-> s[Len(s) + 1 - i]]

\* slice.indices: a slice bound of a list of n items, negative from the end
PyBound(k, n) ==
    IF k < 0 THEN (IF k + n < 0 THEN 0 ELSE k + n)
    ELSE IF k > n THEN n ELSE k

\* lst[start:stop] with 0-based Python bounds
PySlice(s, start, stop) ==
    LET lo == PyBound(start, Len(s))
        hi == PyBound(stop, Len(s))
    IN  IF hi <= lo THEN <<>> ELSE SubSeq(s, lo + 1, hi)

\* lst[start:]
PySliceFrom(s, start) == PySlice(s, start, Len(s))

\* lst[:stop]
PySliceTo(s, stop) == PySlice(s, 0, stop)

(***************************************************************************)
(* trit.py: the Trits class.                                               *)
(***************************************************************************)
\* mutant of Trits_fit: a longer content keeps its leftmost trits
Trits_fit_keep_left(trits, length) ==
    IF Len(trits) < length
        THEN Repeat(TRIT_ZERO, length - Len(trits)) \o trits
    ELSE IF Len(trits) > length
        THEN PySliceTo(trits, length)
    ELSE trits

\* Trits.__init__, the part that forces the length (length is not None and
\* not negative)
Trits_fit(trits, length) ==
    IF Len(trits) < length
        THEN Repeat(TRIT_ZERO, length - Len(trits)) \o trits
    ELSE IF Len(trits) > length
        THEN PySliceFrom(trits, 0 - length)
    ELSE trits

\* Trits(trits, length) with a length argument
Trits_init(trits, length) ==
    IF length < 0 THEN Raise("ValueError")
    ELSE Ok(Trits_fit(trits, length))

Trits_neg(s) == [i \in 1..Len(s) |-> Trit_neg(s[i])]

\* mutant of Trits_match_length: the shorter operand is not padded
Trits_match_length_no_pad(a, b) == <<a, b>>

Trits_match_length(a, b) ==
    IF Len(a) = Len(b) THEN <<a, b>>
    ELSE IF Len(a) < Len(b) THEN <<Trits_fit(a, Len(b)), b>>
    ELSE <<a, Trits_fit(b, Len(a))>>

RECURSIVE CmpFrom(_, _, _)
\* the loop of Trits.cmp over zip(a, b), from position i on
CmpFrom(a, b, i) ==
    IF i > Len(a) \/ i > Len(b) THEN 0
    ELSE IF Trit_lt(a[i], b[i]) THEN 0 - 1
    ELSE IF Trit_gt(a[i], b[i]) THEN 1
    ELSE CmpFrom(a, b, i + 1)

Trits_cmp(self, other) ==
    LET m == Trits_match_length(self, other)
    IN  CmpFrom(m[1], m[2], 1)

Trits_lt(self, other) == Trits_cmp(self, other) < 0

Trits_le(self, other) == Trits_cmp(self, other) <= 0

Trits_eq(self, other) == Trits_cmp(self, other) = 0

Trits_ne(self, other) == Trits_cmp(self, other) # 0

Trits_gt(self, other) == Trits_cmp(self, other) > 0

Trits_ge(self, other) == Trits_cmp(self, other) >= 0

\* Trits.is_zero: every trit is the zero trit (numeric value zero)
Trits_is_zero(s) == \A i \in 1..Len(s) : s[i] = TRIT_ZERO

(***************************************************************************)
(* Python objects whose class matters for method lookup: [cls, trits].     *)
(***************************************************************************)
Obj(c, t) == [cls |-> c, trits |-> t]

\* the methods of each class that the arithmetic looks up by name; Int
\* inherits from Trits, Trits does not know the methods Int defines
ClassAttrs ==
    [c \in {"Trits", "Int"} |->
        IF c = "Int"
            THEN {"is_zero", "is_negative", "__divmod__", "__int__"}
            ELSE {"is_zero"}]

HasAttr(o, name) == name \in ClassAttrs[o.cls]

\* -x for any Trits instance: Trits.__neg__ builds a plain Trits
Neg(o) == Obj("Trits", Trits_neg(o.trits))

(***************************************************************************)
(* integer.py: the Int class.                                              *)
(***************************************************************************)
Abs(n) == IF n < 0 THEN 0 - n ELSE n

RECURSIVE OrderFrom(_, _)
OrderFrom(x, k) == IF 3 ^ k >= x THEN k ELSE OrderFrom(x, k + 1)

\* mutant of Int_order: the factor 2 is forgotten
Int_order_no_double(integer) == OrderFrom(Abs(integer), 0)

\* Int.order: ceil(log(2 * abs(integer), 3)), the least k with 3^k >= 2|n|
\* (exact for the magnitudes drawn here; 2|n| is never a power of 3)
Int_order(integer) == OrderFrom(2 * Abs(integer), 0)

RECURSIVE IntDigits(_, _)
\* the while loop of Int.__init__ from 'power' down to 0
IntDigits(integer, power) ==
    IF power < 0 THEN <<>>
    ELSE LET item == IF integer = 0 \/ Int_order(integer) <= power
                         THEN TRIT_ZERO
                     ELSE IF integer < 0 THEN TRIT_NEG
                     ELSE TRIT_POS
         IN  <<item>> \o
             IntDigits(integer - Trit_int(item) * (3 ^ power), power - 1)

\* Int(n) for a machine integer n, no length argument
Int_init(n) ==
    IF n = 0 THEN <<TRIT_ZERO>>
    ELSE IntDigits(n, Int_order(n) - 1)

Int_is_negative(s) ==
    \E i \in 1..Len(s) :
        /\ s[i] = TRIT_NEG
        /\ \A j \in 1..(i - 1) : s[j] = TRIT_ZERO

RECURSIVE IntSum(_, _, _)
\* the loop of Int.__int__ from position i on
IntSum(s, i, acc) ==
    IF i > Len(s) THEN acc
    ELSE IF s[i] = TRIT_ZERO THEN IntSum(s, i + 1, acc)
    ELSE IntSum(s, i + 1, acc + Trit_int(s[i]) * (3 ^ (Len(s) - i)))

Int_int(s) == IntSum(s, 1, 0)

RECURSIVE RippleAdd(_, _, _, _, _)
\* the loop of Int.__add__ over reversed(zip(a, b)); position i is next
RippleAdd(a, b, i, carry, results) ==
    IF i < 1
        THEN IF carry # TRIT_ZERO THEN Append(results, carry) ELSE results
    ELSE LET r == Trit_add(a[i], b[i], carry)
         IN  RippleAdd(a, b, i - 1, r[2], Append(results, r[1]))

\* mutant of Int_add: the carry out of the last position is dropped
Int_add_drop_carry(self, other) ==
    LET m == Trits_match_length(self, other)
        full == Reversed(RippleAdd(m[1], m[2], Len(m[1]), TRIT_ZERO, <<>>))
    IN  IF Len(full) > Len(m[1]) THEN Tail(full) ELSE full

Int_add(self, other) ==
    LET m == Trits_match_length(self, other)
    IN  Reversed(RippleAdd(m[1], m[2], Len(m[1]), TRIT_ZERO, <<>>))

Int_sub(self, other) == Int_add(self, Trits_neg(other))

RECURSIVE MulFrom(_, _, _, _)
\* the loop of Int.__mul__ from position i on
MulFrom(self, other, i, result) ==
    IF i > Len(self) THEN result
    ELSE IF self[i] = TRIT_ZERO THEN MulFrom(self, other, i + 1, result)
    ELSE LET shift == Repeat(TRIT_ZERO, Len(self) - i)
             trits == [j \in 1..Len(other) |-> Trit_mul(self[i], other[j])]
                          \o shift
         IN  MulFrom(self, other, i + 1, Int_add(result, trits))

\* mutant of Int_mul: no short circuit for a zero operand
Int_mul_no_short_circuit(self, other) ==
    MulFrom(self, other, 1, <<TRIT_ZERO>>)

Int_mul(self, other) ==
    LET result == <<TRIT_ZERO>>
    IN  IF Trits_eq(self, result) \/ Trits_eq(other, result) THEN result
        ELSE MulFrom(self, other, 1, result)

INT_ZERO == Obj("Int", <<TRIT_ZERO>>)
INT_ONE == Obj("Int", <<TRIT_POS>>)
INT_NEG_ONE == Obj("Int", <<TRIT_NEG>>)

RECURSIVE DivLoop(_, _)
\* while remain >= other: remain -= other; quotient += INT_ONE
\* (loop holds the two loop variables)
DivLoop(loop, other) ==
    IF Trits_ge(loop.remain, other)
        THEN DivLoop([remain |-> Int_sub(loop.remain, other),
                      quotient |-> Int_add(loop.quotient, INT_ONE.trits)],
                     other)
    ELSE <<Obj("Int", loop.quotient), Obj("Int", loop.remain)>>

RECURSIVE Int_divmod(_, _)
\* Int.__divmod__ after the zero-divisor check; self is an Int
DivmodBody(self, other) ==
    IF Trits_is_zero(self.trits) THEN Ok(<<INT_ZERO, INT_ZERO>>)
    ELSE IF Trits_eq(other.trits, INT_ONE.trits) THEN Ok(<<self, INT_ZERO>>)
    ELSE IF Trits_eq(other.trits, <<TRIT_NEG>>)
        THEN Ok(<<Neg(self), INT_ZERO>>)
    ELSE IF ~HasAttr(other, "is_negative") THEN Raise("AttributeError")
    ELSE IF Int_is_negative(other.trits)
        THEN LET d == Int_divmod(self, Neg(other))
             IN  IF d.raised # "none" THEN d
                 ELSE Ok(<<Neg(d.value[1]), d.value[2]>>)
    ELSE IF Int_is_negative(self.trits)
        THEN IF ~HasAttr(Neg(self), "__divmod__") THEN Raise("AttributeError")
             ELSE LET d == Int_divmod(Neg(self), other)
                  IN  IF d.raised # "none" THEN d
                      ELSE Ok(<<Neg(d.value[1]), Neg(d.value[2])>>)
    ELSE Ok(DivLoop([remain |-> self.trits, quotient |-> INT_ZERO.trits],
                    other.trits))

\* mutant of Int_divmod: the 0 / x short circuit comes before the
\* zero-divisor check
Int_divmod_zero_dividend_first(self, other) ==
    IF Trits_is_zero(self.trits) THEN Ok(<<INT_ZERO, INT_ZERO>>)
    ELSE IF Trits_is_zero(other.trits) THEN Raise("ZeroDivisionError")
    ELSE DivmodBody(self, other)

\* Int.__divmod__(self, other): Ok(<<quotient, remainder>>) or the error
Int_divmod(self, other) ==
    IF Trits_is_zero(other.trits) THEN Raise("ZeroDivisionError")
    ELSE DivmodBody(self, other)

Int_floordiv(self, other) ==
    LET d == Int_divmod(self, other)
    IN  IF d.raised # "none" THEN d ELSE Ok(d.value[1])

Int_mod(self, other) ==
    LET d == Int_divmod(self, other)
    IN  IF d.raised # "none" THEN d ELSE Ok(d.value[2])

(***************************************************************************)
(* integer.py: the UInt class.                                             *)
(***************************************************************************)
RECURSIVE UIntLoop(_, _)
\* while integer != 0 or len(trits) == 0: least significant digit first
UIntLoop(integer, trits) ==
    IF integer # 0 \/ Len(trits) = 0
        THEN LET remain == integer % 3
                 value == IF remain = 0 THEN TRIT_NEG
                          ELSE IF remain = 1 THEN TRIT_ZERO
                          ELSE TRIT_POS
             IN  UIntLoop(integer \div 3, Append(trits, value))
    ELSE trits

\* UInt(n) for a machine integer n, no length argument
UInt_init(n) ==
    IF n < 0 THEN Raise("ValueError")
    ELSE Ok(Reversed(UIntLoop(n, <<>>)))

\* UInt(n, length) for a machine integer n
UInt_init_length(n, length) ==
    IF n < 0 THEN Raise("ValueError")
    ELSE LET trits == Reversed(UIntLoop(n, <<>>))
             padded == IF length > Len(trits)
                           THEN Repeat(TRIT_NEG, length - Len(trits)) \o trits
                       ELSE trits
         IN  Trits_init(padded, length)

RECURSIVE UIntSum(_, _, _)
\* the loop of UInt.__int__ from position i on
UIntSum(s, i, acc) ==
    IF i > Len(s) THEN acc
    ELSE IF s[i] = TRIT_NEG THEN UIntSum(s, i + 1, acc)
    ELSE UIntSum(s, i + 1, acc + (Trit_int(s[i]) + 1) * (3 ^ (Len(s) - i)))

UInt_int(s) == UIntSum(s, 1, 0)

(***************************************************************************)
(* processor.py: the Register class.                                       *)
(***************************************************************************)
\* Register(trits, length) with an integral length
Register_init(trits, length) ==
    IF length <= 0 THEN Raise("ValueError")
    ELSE Trits_init(trits, length)

(***************************************************************************)
(* trit.py: Trit.make on the symbols of a string.                          *)
(***************************************************************************)
\* INPUTS, restricted to its one-character keys
INPUTS ==
    [c \in {"-", "0", "+", "=", "N", "n", "Z", "z", "1"} |->
        IF c = "-" THEN NEG
        ELSE IF c \in {"+", "1"} THEN POS
        ELSE ZERO]

\* [Trit.make(x) for x in value]: ValueError at the first unknown symbol
MakeAll(value) ==
    IF \A i \in 1..Len(value) : value[i] \in DOMAIN INPUTS
        THEN Ok([i \in 1..Len(value) |-> INPUTS[value[i]]])
    ELSE Raise("ValueError")

(***************************************************************************)
(* processor.py: Register mutation.                                        *)
(***************************************************************************)
\* Register.__setitem__ with the slice [start:stop]; value already a list of
\* trits or of symbols to parse
Register_setslice(reg, start, stop, value) ==
    LET lo == PyBound(start, Len(reg))
        hi == PyBound(stop, Len(reg))
        length == IF hi > lo THEN hi - lo ELSE 0
        made == MakeAll(value)
    IN  IF length # Len(value) THEN Raise("ValueError")
        ELSE IF made.raised # "none" THEN made
        ELSE Ok([i \in 1..Len(reg) |->
                    IF i > lo /\ i <= hi THEN made.value[i - lo] ELSE reg[i]])

\* mutant of Register_setitem: an index past the end appends to the list
Register_setitem_append(reg, key, value) ==
    LET made == MakeAll(<<value>>)
        index == IF key < 0 THEN key + Len(reg) ELSE key
    IN  IF made.raised # "none" THEN made
        ELSE IF index < 0 THEN Raise("IndexError")
        ELSE IF index >= Len(reg) THEN Ok(Append(reg, made.value[1]))
        ELSE Ok([reg EXCEPT ![index + 1] = made.value[1]])

\* Register.__setitem__ with an integer key: Trit.make(value) is evaluated
\* first, then the list item is assigned
Register_setitem(reg, key, value) ==
    LET made == MakeAll(<<value>>)
        index == IF key < 0 THEN key + Len(reg) ELSE key
    IN  IF made.raised # "none" THEN made
        ELSE IF index < 0 \/ index >= Len(reg) THEN Raise("IndexError")
        ELSE Ok([reg EXCEPT ![index + 1] = made.value[1]])

\* mutant of Register_put: a longer content keeps its leftmost trits
Register_put_keep_left(reg, trits) == Trits_fit_keep_left(trits, Len(reg))

\* Register.put: self[:] = Trits(trits, self.length)
Register_put(reg, trits) == Trits_fit(trits, Len(reg))

\* mutant of Register_clear: the register keeps its contents
Register_clear_keep(reg) == reg

\* Register.clear: self.put([])
Register_clear(reg) == Register_put(reg, <<>>)

\* Register.put called with symbols still to be parsed: Trits(trits, length)
\* is built first, then assigned to the slice [:]
Register_put_symbols(reg, trits) ==
    LET made == MakeAll(trits)
    IN  IF made.raised # "none" THEN made
        ELSE Register_setslice(reg, 0, Len(reg), Register_put(reg, made.value))

\* Trits.__lshift__: n zero trits appended on the right
Trits_lshift(s, n) == s \o Repeat(TRIT_ZERO, n)

\* Trits.__rshift__: the n rightmost trits dropped
Trits_rshift(s, n) == PySliceTo(s, Len(s) - n)

Trits_and(self, other) ==
    LET m == Trits_match_length(self, other)
    IN  [i \in 1..Len(m[1]) |-> Trit_and(m[1][i], m[2][i])]

Trits_or(self, other) ==
    LET m == Trits_match_length(self, other)
    IN  [i \in 1..Len(m[1]) |-> Trit_or(m[1][i], m[2][i])]

Trits_xor(self, other) ==
    LET m == Trits_match_length(self, other)
    IN  [i \in 1..Len(m[1]) |-> Trit_xor(m[1][i], m[2][i])]

Trits_invert(s) == Trits_neg(s)

(***************************************************************************)
(* processor.py: the T3 processor.                                         *)
(***************************************************************************)
OPCODE_SIZE == 3
ADDRESS_SIZE == 3
INSTRUCTION_SIZE == 6
REGISTER_SIZE == 6
PROGRAM_SLOTS == 27
PROGRAM_SIZE == PROGRAM_SLOTS * INSTRUCTION_SIZE

ADDRESS_MIN == <<"-", "-", "-">>
ADDRESS_MAX == <<"+", "+", "+">>

\* the keys of T3.registers
Addresses == [1..ADDRESS_SIZE -> Trit]

\* the default register's address
DR == <<"0", "0", "0">>

\* T3.INSTRUCTIONS: opcode -> name of the method that executes it
INSTRUCTIONS ==
    (<<"-", "-", "+">> :> "log_not") @@
    (<<"-", "+", "-">> :> "log_or") @@
    (<<"-", "+", "0">> :> "shift_right") @@
    (<<"-", "+", "+">> :> "put_low") @@
    (<<"0", "-", "-">> :> "clear") @@
    (<<"0", "-", "0">> :> "jump_nonzero") @@
    (<<"0", "-", "+">> :> "sub") @@
    (<<"0", "0", "-">> :> "load") @@
    (<<"0", "0", "0">> :> "halt") @@
    (<<"0", "0", "+">> :> "save") @@
    (<<"0", "+", "-">> :> "add") @@
    (<<"0", "+", "0">> :> "jump_zero") @@
    (<<"0", "+", "+">> :> "output") @@
    (<<"+", "-", "-">> :> "put_high") @@
    (<<"+", "-", "0">> :> "shift_left") @@
    (<<"+", "-", "+">> :> "log_and") @@
    (<<"+", "+", "-">> :> "log_xor")

\* T3.get_operand: the instruction after the opcode
get_operand(data) == PySliceFrom(data, OPCODE_SIZE)

\* The instruction methods.  m is the machine [ip, registers, outputs, stop]
\* and data the fetched instruction; each returns the machine afterwards.
SetDR(m, trits) ==
    [m EXCEPT !.registers[DR] = Register_put(m.registers[DR], trits)]

\* mutant of T3_halt: the stop flag is not set
T3_halt_ignored(m, data) == m

T3_halt(m, data) == [m EXCEPT !.stop = TRUE]

T3_load(m, data) == SetDR(m, m.registers[get_operand(data)])

T3_save(m, data) ==
    [m EXCEPT !.registers[get_operand(data)] =
        Register_put(m.registers[get_operand(data)], m.registers[DR])]

T3_add(m, data) ==
    SetDR(m, Int_add(m.registers[DR], m.registers[get_operand(data)]))

\* mutant of T3_sub: the operands are exchanged
T3_sub_swapped(m, data) ==
    SetDR(m, Int_sub(m.registers[get_operand(data)], m.registers[DR]))

T3_sub(m, data) ==
    SetDR(m, Int_sub(m.registers[DR], m.registers[get_operand(data)]))

T3_jump_zero(m, data) ==
    IF Trits_is_zero(m.registers[DR])
        THEN [m EXCEPT !.ip = Register_put(m.ip, get_operand(data))]
    ELSE m

\* mutant of T3_jump_nonzero: the jump is taken whatever dr holds
T3_jump_nonzero_always(m, data) ==
    [m EXCEPT !.ip = Register_put(m.ip, get_operand(data))]

T3_jump_nonzero(m, data) ==
    IF ~Trits_is_zero(m.registers[DR])
        THEN [m EXCEPT !.ip = Register_put(m.ip, get_operand(data))]
    ELSE m

\* mutant of T3_clear: dr is cleared whatever the operand says
T3_clear_dr(m, data) ==
    [m EXCEPT !.registers[DR] = Register_clear(m.registers[DR])]

T3_clear(m, data) ==
    [m EXCEPT !.registers[get_operand(data)] =
        Register_clear(m.registers[get_operand(data)])]

T3_output(m, data) ==
    [m EXCEPT !.outputs = Append(m.outputs, m.registers[get_operand(data)])]

\* mutant of T3_put_low: the operand is put into the whole of dr
T3_put_low_whole(m, data) == SetDR(m, get_operand(data))

T3_put_low(m, data) ==
    LET operand == get_operand(data)
        dr == m.registers[DR]
    IN  [m EXCEPT !.registers[DR] =
            Register_setslice(dr, 0 - Len(operand), Len(dr), operand).value]

T3_put_high(m, data) ==
    LET operand == get_operand(data)
        dr == m.registers[DR]
    IN  [m EXCEPT !.registers[DR] =
            Register_setslice(dr, 0, Len(operand), operand).value]

T3_shift_left(m, data) ==
    SetDR(m, Trits_lshift(m.registers[get_operand(data)], 1))

T3_shift_right(m, data) ==
    SetDR(m, Trits_rshift(m.registers[get_operand(data)], 1))

T3_log_and(m, data) ==
    SetDR(m, Trits_and(m.registers[DR], m.registers[get_operand(data)]))

T3_log_or(m, data) ==
    SetDR(m, Trits_or(m.registers[DR], m.registers[get_operand(data)]))

\* mutant of T3_log_xor: the inclusive disjunction is taken
T3_log_xor_as_or(m, data) ==
    SetDR(m, Trits_or(m.registers[DR], m.registers[get_operand(data)]))

T3_log_xor(m, data) ==
    SetDR(m, Trits_xor(m.registers[DR], m.registers[get_operand(data)]))

T3_log_not(m, data) ==
    SetDR(m, Trits_invert(m.registers[get_operand(data)]))

\* Instruction.execute: getattr(T3, func)(processor, data)
Instruction_execute(func, m, data) ==
    CASE func = "halt" -> T3_halt(m, data)
      [] func = "load" -> T3_load(m, data)
      [] func = "save" -> T3_save(m, data)
      [] func = "add" -> T3_add(m, data)
      [] func = "sub" -> T3_sub(m, data)
      [] func = "jump_zero" -> T3_jump_zero(m, data)
      [] func = "jump_nonzero" -> T3_jump_nonzero(m, data)
      [] func = "clear" -> T3_clear(m, data)
      [] func = "output" -> T3_output(m, data)
      [] func = "put_low" -> T3_put_low(m, data)
      [] func = "put_high" -> T3_put_high(m, data)
      [] func = "shift_left" -> T3_shift_left(m, data)
      [] func = "shift_right" -> T3_shift_right(m, data)
      [] func = "log_and" -> T3_log_and(m, data)
      [] func = "log_or" -> T3_log_or(m, data)
      [] func = "log_xor" -> T3_log_xor(m, data)
      [] func = "log_not" -> T3_log_not(m, data)

\* mutant of T3_fetch: the address is read as a signed integer
T3_fetch_signed(ip_, program_, ir_) ==
    LET address == Int_int(ip_) * INSTRUCTION_SIZE
        instruction == PySlice(program_, address, address + INSTRUCTION_SIZE)
    IN  Register_put(ir_, instruction)

\* T3.fetch: the instruction register after the fetch
T3_fetch(ip_, program_, ir_) ==
    LET address == UInt_int(ip_) * INSTRUCTION_SIZE
        instruction == PySlice(program_, address, address + INSTRUCTION_SIZE)
    IN  Register_put(ir_, instruction)

\* mutant of T3_increment: ip advances by the instruction size in trits
T3_increment_by_size(ip_) ==
    Register_put(ip_, Int_add(ip_, Int_init(INSTRUCTION_SIZE)))

\* T3.increment: the instruction pointer after the increment
T3_increment(ip_) == Register_put(ip_, Int_add(ip_, <<TRIT_POS>>))

\* mutant of T3_execute: an unknown opcode stops the processor like a halt
T3_execute_unknown_halts(m, ir_) ==
    LET opcode == PySliceTo(ir_, OPCODE_SIZE)
    IN  IF opcode \notin DOMAIN INSTRUCTIONS THEN Ok([m EXCEPT !.stop = TRUE])
        ELSE Ok(Instruction_execute(INSTRUCTIONS[opcode], m, ir_))

\* mutant of T3_execute: an unknown opcode is skipped
T3_execute_skip_unknown(m, ir_) ==
    LET opcode == PySliceTo(ir_, OPCODE_SIZE)
    IN  IF opcode \notin DOMAIN INSTRUCTIONS THEN Ok(m)
        ELSE Ok(Instruction_execute(INSTRUCTIONS[opcode], m, ir_))

\* T3.execute: Ok(machine afterwards), or ValueError for an unknown opcode
T3_execute(m, ir_) ==
    LET opcode == PySliceTo(ir_, OPCODE_SIZE)
    IN  IF opcode \notin DOMAIN INSTRUCTIONS THEN Raise("ValueError")
        ELSE Ok(Instruction_execute(INSTRUCTIONS[opcode], m, ir_))

\* mutant of T3_set_program: a text that fills the memory exactly is refused
T3_set_program_strict(program_, text) ==
    IF Len(text) >= PROGRAM_SIZE
        THEN [raised |-> "ValueError", value |-> program_]
    ELSE LET cleared == Register_clear(program_)
             written == Register_setslice(cleared, 0, Len(text), text)
         IN  IF written.raised # "none"
                 THEN [raised |-> written.raised, value |-> cleared]
             ELSE written

\* mutant of T3_set_program: the memory is not cleared before the write
T3_set_program_no_clear(program_, text) ==
    IF Len(text) > PROGRAM_SIZE
        THEN [raised |-> "ValueError", value |-> program_]
    ELSE LET written == Register_setslice(program_, 0, Len(text), text)
         IN  IF written.raised # "none"
                 THEN [raised |-> written.raised, value |-> program_]
             ELSE written

\* T3.set_program: Ok(program memory afterwards), or ValueError raised with
\* the memory as the failing call leaves it in 'value'
T3_set_program(program_, text) ==
    IF Len(text) > PROGRAM_SIZE
        THEN [raised |-> "ValueError", value |-> program_]
    ELSE LET cleared == Register_clear(program_)
             written == Register_setslice(cleared, 0, Len(text), text)
         IN  IF written.raised # "none"
                 THEN [raised |-> written.raised, value |-> cleared]
             ELSE written

(***************************************************************************)
(* character.py: the UTF6t codec.  A character is held as its code point   *)
(* (ord and unichr convert between the two).                               *)
(***************************************************************************)
INITIAL == POS
CONTINUE == ZERO
FINAL == NEG
LEAD_SIZE == 1
DATA_SIZE == 5
TRYTE_SIZE == 6

\* the names bound at the top level of the module trit
TritModuleAttrs ==
    {"NEG", "ZERO", "POS", "GLYPHS", "INTEGERS", "INPUTS", "Trit", "TRITS",
     "TRIT_NEG", "TRIT_ZERO", "TRIT_POS", "Trits"}

\* the lead trit of the tryte at offset i of 'length' data trits; the
\* last branch reads trit.CONTINUE, an attribute of the module trit
UTF6t_lead(i, length) ==
    IF i = length - DATA_SIZE THEN Ok(FINAL)
    ELSE IF i = 0 THEN Ok(INITIAL)
    ELSE IF "CONTINUE" \in TritModuleAttrs THEN Ok(CONTINUE)
    ELSE Raise("AttributeError")

RECURSIVE UTF6t_trytes(_)
\* for i in range(0, length, DATA_SIZE), st = [uint, i, trits]
UTF6t_trytes(st) ==
    IF st.i >= Len(st.uint) THEN Ok(st.trits)
    ELSE LET lead == UTF6t_lead(st.i, Len(st.uint))
         IN  IF lead.raised # "none" THEN lead
             ELSE UTF6t_trytes(
                      [uint |-> st.uint,
                       i |-> st.i + DATA_SIZE,
                       trits |-> st.trits \o <<lead.value>>
                                   \o PySlice(st.uint, st.i, st.i + DATA_SIZE)])

\* the body of the loop over chars, for one integer code point, appending
\* to 'trits'
UTF6t_encode_char(code, trits) ==
    LET u == UInt_init(code)
    IN  IF u.raised # "none" THEN u
        ELSE LET padding == (DATA_SIZE - Len(u.value)) % DATA_SIZE
                 uint == Repeat(NEG, padding) \o u.value
             IN  UTF6t_trytes([uint |-> uint, i |-> 0, trits |-> trits])

RECURSIVE UTF6t_encode_from(_)
\* for char in chars, st = [chars, k, trits]
UTF6t_encode_from(st) ==
    IF st.k > Len(st.chars) THEN Ok(st.trits)
    ELSE LET r == UTF6t_encode_char(st.chars[st.k], st.trits)
         IN  IF r.raised # "none" THEN r
             ELSE UTF6t_encode_from(
                      [chars |-> st.chars, k |-> st.k + 1, trits |-> r.value])

UTF6t_encode(chars) ==
    UTF6t_encode_from([chars |-> chars, k |-> 1, trits |-> <<>>])

\* the largest code point unichr accepts (0x10FFFF)
UNICODE_MAX == (17 * 65536) - 1

unichr(n) == IF n > UNICODE_MAX THEN Raise("ValueError") ELSE Ok(n)

RECURSIVE UTF6t_decode_from(_)
\* for i in range(0, len(trits), TRYTE_SIZE), st = [trits, i, code, result]
UTF6t_decode_from(st) ==
    IF st.i >= Len(st.trits)
        THEN IF Len(st.code) # 0 THEN Raise("ValueError") ELSE Ok(st.result)
    ELSE LET lead == st.trits[st.i + 1]
             data == PySlice(st.trits, st.i + LEAD_SIZE, st.i + TRYTE_SIZE)
         IN  IF lead = FINAL
                 THEN LET c == unichr(UInt_int(st.code \o data))
                      IN  IF c.raised # "none" THEN c
                          ELSE UTF6t_decode_from(
                                   [trits |-> st.trits,
                                    i |-> st.i + TRYTE_SIZE,
                                    code |-> <<>>,
                                    result |-> Append(st.result, c.value)])
             ELSE IF lead = CONTINUE /\ Len(st.code) = 0
                 THEN Raise("ValueError")
             ELSE IF lead = INITIAL /\ Len(st.code) # 0
                 THEN Raise("ValueError")
             ELSE UTF6t_decode_from(
                      [trits |-> st.trits,
                       i |-> st.i + TRYTE_SIZE,
                       code |-> st.code \o data,
                       result |-> st.result])

UTF6t_decode(trits) ==
    IF Len(trits) = 0 THEN Ok(<<>>)
    ELSE IF Len(trits) % TRYTE_SIZE # 0 THEN Raise("ValueError")
    ELSE UTF6t_decode_from(
             [trits |-> trits, i |-> 0, code |-> <<>>, result |-> <<>>])

(***************************************************************************)
(* hwsim/component.py: primitives and components.  A name such as          *)
(* 'Nand.out' is held as the sequence of its parts, <<"Nand", "out">>; a   *)
(* dict is a function on its keys; a Component is the record of its        *)
(* attributes, its sub-components and its cache included.                  *)
(***************************************************************************)
\* the singleton NAND = Nand(): a primitive with inputs a, b and output out
NAND ==
    [kind |-> "Nand",
     inputs |-> << <<"a">>, <<"b">> >>,
     outputs |-> << <<"out">> >>]

\* Nand.get_outputs
Nand_get_outputs(inputs) ==
    LET a == inputs[<<"a">>]
        b == inputs[<<"b">>]
    IN  IF a = NEG \/ b = NEG THEN <<POS>>
        ELSE IF a = POS /\ b = POS THEN <<NEG>>
        ELSE <<ZERO>>

\* the elements of a tuple
Elements(t) == {t[k] : k \in DOMAIN t}

\* Component.__init__: the cache starts empty
Component_init(inputs, outputs, components, connections) ==
    [kind |-> "Component",
     inputs |-> inputs,
     outputs |-> outputs,
     cache |-> [n \in {} |-> ZERO],
     components |-> components,
     connections |-> connections]

RECURSIVE Component_get_value(_, _, _)
RECURSIVE Component_evaluate_subcomponent(_, _, _)
RECURSIVE Component_get_outputs(_, _)
RECURSIVE SubInputsFrom(_)
RECURSIVE OutputsFrom(_)

\* get_outputs of a primitive or a component: [self, value], self being the
\* object as the call leaves it
Get_outputs(comp, inputs) ==
    IF comp.kind = "Nand"
        THEN [self |-> comp, value |-> Nand_get_outputs(inputs)]
    ELSE Component_get_outputs(comp, inputs)

\* 'source in self.cache'
Cached(self, source) == source \in DOMAIN self.cache

\* Component.get_value: [self, value]
Component_get_value(self, inputs, name) ==
    IF name \in Elements(self.inputs)
        THEN [self |-> self, value |-> inputs[name]]
    ELSE IF name \in DOMAIN self.connections
        THEN LET source == self.connections[name]
             IN  IF source \in Elements(self.inputs)
                     THEN [self |-> self, value |-> inputs[source]]
                 ELSE IF Cached(self, source)
                     THEN [self |-> self, value |-> self.cache[source]]
                 ELSE LET after == Component_evaluate_subcomponent(
                                       self, inputs, source[1])
                      IN  [self |-> after, value |-> after.cache[source]]
    ELSE [self |-> self, value |-> "None"]

\* for n in comp.inputs: subinputs[n] = self.get_value(inputs, name.n);
\* st = [self, inputs, name, k, subinputs]
SubInputsFrom(st) ==
    LET comp == st.self.components[st.name]
    IN  IF st.k > Len(comp.inputs) THEN st
        ELSE LET n == comp.inputs[st.k]
                 got == Component_get_value(st.self, st.inputs,
                                            <<st.name>> \o n)
             IN  SubInputsFrom(
                     [self |-> got.self,
                      inputs |-> st.inputs,
                      name |-> st.name,
                      k |-> st.k + 1,
                      subinputs |-> (n :> got.value) @@ st.subinputs])

\* Component.evaluate_subcomponent: self afterwards
Component_evaluate_subcomponent(self, inputs, name) ==
    LET st == SubInputsFrom([self |-> self, inputs |-> inputs, name |-> name,
                             k |-> 1, subinputs |-> [n \in {} |-> ZERO]])
        comp == st.self.components[name]
        outs == Get_outputs(comp, st.subinputs)
        update == [key \in {<<name>> \o comp.outputs[i] :
                                i \in DOMAIN comp.outputs} |->
                      outs.value[CHOOSE i \in DOMAIN comp.outputs :
                                     <<name>> \o comp.outputs[i] = key]]
    IN  [st.self EXCEPT !.components[name] = outs.self,
                        !.cache = update @@ st.self.cache]

\* tuple(self.get_value(inputs, x) for x in self.outputs);
\* st = [self, inputs, k, value]
OutputsFrom(st) ==
    IF st.k > Len(st.self.outputs) THEN [self |-> st.self, value |-> st.value]
    ELSE LET got == Component_get_value(st.self, st.inputs,
                                        st.self.outputs[st.k])
         IN  OutputsFrom([self |-> got.self,
                          inputs |-> st.inputs,
                          k |-> st.k + 1,
                          value |-> Append(st.value, got.value)])

\* Component.get_outputs: [self, value]
Component_get_outputs(self, inputs) ==
    OutputsFrom([self |-> self, inputs |-> inputs, k |-> 1, value |-> <<>>])

\* Primitive.evaluate(values) for a tuple of values, one for each input
Primitive_evaluate(self, values) ==
    Get_outputs(self, [n \in Elements(self.inputs) |->
                          values[CHOOSE k \in DOMAIN self.inputs :
                                     self.inputs[k] = n]])

not_gate ==
    Component_init(
        << <<"in">> >>,
        << <<"out">> >>,
        [n \in {"Nand"} |-> NAND],
        (<<"out">> :> <<"Nand", "out">>) @@
        (<<"Nand", "a">> :> <<"in">>) @@
        (<<"Nand", "b">> :> <<"in">>))

and_gate ==
    Component_init(
        << <<"a">>, <<"b">> >>,
        << <<"out">> >>,
        ("Nand" :> NAND) @@ ("Not" :> not_gate),
        (<<"out">> :> <<"Not", "out">>) @@
        (<<"Not", "in">> :> <<"Nand", "out">>) @@
        (<<"Nand", "a">> :> <<"a">>) @@
        (<<"Nand", "b">> :> <<"b">>))

or_gate ==
    Component_init(
        << <<"a">>, <<"b">> >>,
        << <<"out">> >>,
        ("Nand" :> NAND) @@ ("NotA" :> not_gate) @@ ("NotB" :> not_gate),
        (<<"out">> :> <<"Nand", "out">>) @@
        (<<"Nand", "a">> :> <<"NotA", "out">>) @@
        (<<"Nand", "b">> :> <<"NotB", "out">>) @@
        (<<"NotA", "in">> :> <<"a">>) @@
        (<<"NotB", "in">> :> <<"b">>))

xor_gate ==
    Component_init(
        << <<"a">>, <<"b">> >>,
        << <<"out">> >>,
        ("Nand" :> NAND) @@ ("Or" :> or_gate) @@ ("And" :> and_gate),
        (<<"out">> :> <<"And", "out">>) @@
        (<<"And", "a">> :> <<"Or", "out">>) @@
        (<<"And", "b">> :> <<"Nand", "out">>) @@
        (<<"Or", "a">> :> <<"a">>) @@
        (<<"Or", "b">> :> <<"b">>) @@
        (<<"Nand", "a">> :> <<"a">>) @@
        (<<"Nand", "b">> :> <<"b">>))

(***************************************************************************)
(* State.                                                                  *)
(*   op, args, out: the last library call, its arguments and what it       *)
(*     returned or raised (args also holds the text last handed to         *)
(*     set_program, where that is recorded).                               *)
(*   ip, ir, registers, program, outputs, stop: the fields of one T3.      *)
(*   pc: where run() stands ("idle" when no run is in progress).           *)
(*   last: the last method called on the processor; raised: what it raised.*)
(*   steps: the steps of the latest run(), in order; entry: ip and         *)
(*     registers as they were when that run() was entered; runs: the       *)
(*     number of run() calls so far; at: ip as it was at the latest fetch. *)
(***************************************************************************)
VARIABLES op, args, out,
          ip, ir, registers, program, outputs, stop,
          pc, last, raised, steps, entry, runs, at

libvars == <<op, args, out>>

t3vars == <<ip, ir, registers, program, outputs, stop,
            pc, last, raised, steps, entry, runs, at>>

vars == <<op, args, out, ip, ir, registers, program, outputs, stop,
          pc, last, raised, steps, entry, runs, at>>

\* all trit sequences of at most n trits
TritSeqs(n) == UNION {[1..k -> Trit] : k \in 0..n}

Operands == TritSeqs(MaxLen)

Contents == TritSeqs(MaxContent)

Lengths == (0 - 1)..MaxWidth

(***************************************************************************)
(* The library calls: each is made once, from the state where nothing has  *)
(* been called yet; it draws its arguments and records the result.         *)
(***************************************************************************)
Call_divmod ==
    /\ op = "none"
    /\ \E a \in Operands, b \in Operands :
        /\ op' = "divmod"
        /\ args' = <<a, b>>
        /\ UNCHANGED t3vars
        /\ out' = Int_divmod(Obj("Int", a), Obj("Int", b))

Call_floordiv ==
    /\ op = "none"
    /\ \E a \in Operands, b \in Operands :
        /\ op' = "floordiv"
        /\ args' = <<a, b>>
        /\ UNCHANGED t3vars
        /\ out' = Int_floordiv(Obj("Int", a), Obj("Int", b))

Call_mod ==
    /\ op = "none"
    /\ \E a \in Operands, b \in Operands :
        /\ op' = "mod"
        /\ args' = <<a, b>>
        /\ UNCHANGED t3vars
        /\ out' = Int_mod(Obj("Int", a), Obj("Int", b))

Call_add ==
    /\ op = "none"
    /\ \E a \in Operands, b \in Operands :
        /\ op' = "add"
        /\ args' = <<a, b>>
        /\ UNCHANGED t3vars
        /\ out' = Int_add(a, b)

Call_sub ==
    /\ op = "none"
    /\ \E a \in Operands, b \in Operands :
        /\ op' = "sub"
        /\ args' = <<a, b>>
        /\ UNCHANGED t3vars
        /\ out' = Int_sub(a, b)

Call_mul ==
    /\ op = "none"
    /\ \E a \in Operands, b \in Operands :
        /\ op' = "mul"
        /\ args' = <<a, b>>
        /\ UNCHANGED t3vars
        /\ out' = Int_mul(a, b)

Call_cmp ==
    /\ op = "none"
    /\ \E a \in Operands, b \in Operands :
        /\ op' = "cmp"
        /\ args' = <<a, b>>
        /\ UNCHANGED t3vars
        /\ out' = [lt |-> Trits_lt(a, b), le |-> Trits_le(a, b),
                    eq |-> Trits_eq(a, b), ne |-> Trits_ne(a, b),
                    gt |-> Trits_gt(a, b), ge |-> Trits_ge(a, b)]

Call_trit ==
    /\ op = "none"
    /\ \E x \in Trit, y \in Trit :
        /\ op' = "trit"
        /\ args' = <<x, y>>
        /\ UNCHANGED t3vars
        /\ out' = [and |-> Trit_and(x, y), or |-> Trit_or(x, y),
                    xor |-> Trit_xor(x, y), mul |-> Trit_mul(x, y),
                    neg |-> Trit_neg(x), invert |-> Trit_invert(x),
                    invert_xor |-> Trit_invert(Trit_xor(x, y))]

Call_Int ==
    /\ op = "none"
    /\ \E n \in (0 - MaxInt)..MaxInt :
        /\ op' = "Int"
        /\ args' = <<n>>
        /\ UNCHANGED t3vars
        /\ out' = Int_init(n)

Call_UInt ==
    /\ op = "none"
    /\ \E n \in (0 - 2)..MaxUInt :
        /\ op' = "UInt"
        /\ args' = <<n>>
        /\ UNCHANGED t3vars
        /\ out' = UInt_init(n)

Call_UInt_length ==
    /\ op = "none"
    /\ \E n \in (0 - 2)..MaxUInt, length \in Lengths :
        /\ op' = "UInt_length"
        /\ args' = <<n, length>>
        /\ UNCHANGED t3vars
        /\ out' = UInt_init_length(n, length)

Call_Trits ==
    /\ op = "none"
    /\ \E content \in Contents, length \in Lengths :
        /\ op' = "Trits"
        /\ args' = <<content, length>>
        /\ UNCHANGED t3vars
        /\ out' = Trits_init(content, length)

Call_Register ==
    /\ op = "none"
    /\ \E content \in Contents, length \in Lengths :
        /\ op' = "Register"
        /\ args' = <<content, length>>
        /\ UNCHANGED t3vars
        /\ out' = Register_init(content, length)

\* a OP b for a = UInt(x) and b = UInt(y) made from trit sequences of at
\* least one trit: UInt
\* defines no comparison of its own, so these are Trits.cmp and the
\* comparison methods of Trits, with Trits.match_length
Call_UInt_cmp ==
    /\ op = "none"
    /\ \E a \in Operands \ {<<>>}, b \in Operands \ {<<>>} :
        /\ op' = "UInt_cmp"
        /\ args' = <<a, b>>
        /\ UNCHANGED t3vars
        /\ out' = [lt |-> Trits_lt(a, b), le |-> Trits_le(a, b),
                    eq |-> Trits_eq(a, b), ne |-> Trits_ne(a, b),
                    gt |-> Trits_gt(a, b), ge |-> Trits_ge(a, b),
                    int |-> <<UInt_int(a), UInt_int(b)>>]

\* the code points drawn: the ends of the ranges that need one, two and
\* three trytes, the character 0xFF76 of TestUTF6t and the last code point
CodePoints ==
    {0, 65, (3 ^ DATA_SIZE) - 1, 3 ^ DATA_SIZE,
     (3 ^ (2 * DATA_SIZE)) - 1, 3 ^ (2 * DATA_SIZE),
     (3 ^ (2 * DATA_SIZE)) + 6349, UNICODE_MAX}

Strings == UNION {[1..k -> CodePoints] : k \in 0..MaxChars}

\* UTF6t.decode(UTF6t.encode(chars)): out.encoded is what encode returned
Call_UTF6t ==
    /\ op = "none"
    /\ \E chars \in Strings :
        /\ op' = "UTF6t"
        /\ args' = <<chars>>
        /\ UNCHANGED t3vars
        /\ out' = LET e == UTF6t_encode(chars)
                  IN  IF e.raised # "none"
                          THEN [raised |-> e.raised, value |-> <<>>,
                                encoded |-> <<>>]
                      ELSE LET d == UTF6t_decode(e.value)
                           IN  [raised |-> d.raised, value |-> d.value,
                                encoded |-> e.value]

(***************************************************************************)
(* The processor: construction, and the methods called on it.              *)
(***************************************************************************)
\* T3.__init__, which ends with reset()
T3_init ==
    /\ ip = Register_put(Repeat(TRIT_ZERO, ADDRESS_SIZE), ADDRESS_MIN)
    /\ ir = Repeat(TRIT_ZERO, INSTRUCTION_SIZE)
    /\ registers = [a \in Addresses |-> Repeat(TRIT_ZERO, REGISTER_SIZE)]
    /\ program = Repeat(TRIT_ZERO, PROGRAM_SIZE)
    /\ outputs = <<>>
    /\ stop = FALSE
    /\ pc = "idle"
    /\ last = "init"
    /\ raised = "none"
    /\ steps = <<>>
    /\ entry = [ip |-> ADDRESS_MIN,
                registers |-> [a \in Addresses |-> Repeat(TRIT_ZERO, REGISTER_SIZE)]]
    /\ runs = 0
    /\ at = ADDRESS_MIN

Lib_init ==
    /\ op = "none"
    /\ args = <<>>
    /\ out = <<>>

\* the instructions programs are drawn from: every opcode, registered or
\* not, with each operand of OperandPool
OperandPool == {DR, <<"0", "0", "+">>, <<"-", "-", "-">>}

InstructionPool == {o \o a : o \in [1..OPCODE_SIZE -> Trit], a \in OperandPool}

RECURSIVE Flatten(_)
Flatten(instructions) ==
    IF Len(instructions) = 0 THEN <<>>
    ELSE Head(instructions) \o Flatten(Tail(instructions))

\* the programs handed to set_program: up to MaxProgram pooled instructions,
\* one text that is too long and one with a symbol that is no trit
Programs ==
    {Flatten(p) : p \in UNION {[1..k -> InstructionPool] : k \in 0..MaxProgram}}
    \cup {Repeat("0", PROGRAM_SIZE + 1)}
    \cup {<<"-", "+", "+", "0", "$", "+">>}

ProgramBlank == \A i \in 1..Len(program) : program[i] = TRIT_ZERO

\* set_program(text), called on blank program memory before the first run
\* (as TestProcessor.run_program does on a fresh processor)
SetProgram ==
    /\ pc = "idle"
    /\ runs = 0
    /\ ProgramBlank
    /\ \E text \in Programs :
        LET r == T3_set_program(program, text)
        IN  /\ program' = r.value
            /\ raised' = r.raised
            /\ last' = "set_program"
    /\ UNCHANGED <<ip, ir, registers, outputs, stop, pc, steps, entry, runs, at>>
    /\ UNCHANGED libvars

\* reset(), called between runs
Reset ==
    /\ pc = "idle"
    /\ ip' = Register_put(ip, ADDRESS_MIN)
    /\ ir' = Register_clear(ir)
    /\ outputs' = <<>>
    /\ registers' = [a \in Addresses |-> Register_clear(registers[a])]
    /\ last' = "reset"
    /\ raised' = "none"
    /\ UNCHANGED <<program, stop, pc, steps, entry, runs, at>>
    /\ UNCHANGED libvars

\* halt(), called from outside between runs
Halt ==
    /\ pc = "idle"
    /\ stop' = TRUE
    /\ last' = "halt"
    /\ raised' = "none"
    /\ UNCHANGED <<ip, ir, registers, program, outputs, pc, steps, entry, runs, at>>
    /\ UNCHANGED libvars

\* mutant of Run: the stop flag is left as it is and tested at once
Run_keep_stop ==
    /\ pc = "idle"
    /\ runs < MaxRuns
    /\ pc' = IF stop THEN "idle" ELSE "fetch"
    /\ last' = "run"
    /\ raised' = "none"
    /\ steps' = <<>>
    /\ entry' = [ip |-> ip, registers |-> registers]
    /\ runs' = runs + 1
    /\ UNCHANGED <<ip, ir, registers, program, outputs, stop, at>>
    /\ UNCHANGED libvars

\* run() is entered: the stop flag is cleared and the loop test passes
Run ==
    /\ pc = "idle"
    /\ runs < MaxRuns
    /\ stop' = FALSE
    /\ pc' = "fetch"
    /\ last' = "run"
    /\ raised' = "none"
    /\ steps' = <<>>
    /\ entry' = [ip |-> ip, registers |-> registers]
    /\ runs' = runs + 1
    /\ UNCHANGED <<ip, ir, registers, program, outputs, at>>
    /\ UNCHANGED libvars

\* the opcodes of jump_zero and jump_nonzero
JumpOpcodes ==
    {o \in DOMAIN INSTRUCTIONS :
        INSTRUCTIONS[o] \in {"jump_zero", "jump_nonzero"}}

\* whether some slot of the program memory holds a jump
HasJump ==
    \E u \in 0..(PROGRAM_SLOTS - 1) :
        PySlice(program, u * INSTRUCTION_SIZE,
                u * INSTRUCTION_SIZE + OPCODE_SIZE) \in JumpOpcodes

\* the number of cycles a run is followed for
CycleLimit == IF HasJump THEN MaxCycles ELSE PROGRAM_SLOTS + MaxCycles

Fetch ==
    /\ pc = "fetch"
    /\ Len(steps) < 3 * CycleLimit
    /\ ir' = T3_fetch(ip, program, ir)
    /\ pc' = "increment"
    /\ steps' = Append(steps, "fetch")
    /\ at' = ip
    /\ UNCHANGED <<ip, registers, program, outputs, stop, last, raised, entry, runs>>
    /\ UNCHANGED libvars

Increment ==
    /\ pc = "increment"
    /\ ip' = T3_increment(ip)
    /\ pc' = "execute"
    /\ steps' = Append(steps, "increment")
    /\ UNCHANGED <<ir, registers, program, outputs, stop, last, raised, entry, runs, at>>
    /\ UNCHANGED libvars

\* execute(), then the loop test of run(): an error leaves run() at once
Execute ==
    /\ pc = "execute"
    /\ LET m == [ip |-> ip, registers |-> registers,
                 outputs |-> outputs, stop |-> stop]
           r == T3_execute(m, ir)
       IN  IF r.raised # "none"
               THEN /\ raised' = r.raised
                    /\ pc' = "idle"
                    /\ UNCHANGED <<ip, registers, outputs, stop>>
           ELSE /\ ip' = r.value.ip
                /\ registers' = r.value.registers
                /\ outputs' = r.value.outputs
                /\ stop' = r.value.stop
                /\ pc' = IF r.value.stop THEN "idle" ELSE "fetch"
                /\ UNCHANGED raised
    /\ steps' = Append(steps, "execute")
    /\ UNCHANGED <<ir, program, last, entry, runs, at>>
    /\ UNCHANGED libvars

Init == Lib_init /\ T3_init

Next ==
    \/ Call_divmod
    \/ Call_floordiv
    \/ Call_mod
    \/ Call_add
    \/ Call_sub
    \/ Call_mul
    \/ Call_cmp
    \/ Call_trit
    \/ Call_Int
    \/ Call_UInt
    \/ Call_UInt_length
    \/ Call_Trits
    \/ Call_Register
    \/ Call_UTF6t
    \/ Call_UInt_cmp

\* the library: one call with drawn arguments
Spec == Init /\ [][Next]_vars

NextT3 ==
    \/ SetProgram
    \/ Reset
    \/ Halt
    \/ Run
    \/ Fetch
    \/ Increment
    \/ Execute

\* one T3 processor: programs loaded and run
SpecT3 == Init /\ [][NextT3]_vars

(***************************************************************************)
(* The processor started from any address with chosen register contents:   *)
(* the instruction pointer and the registers are written directly (as      *)
(* TestProcessor.test_load writes a register) and the program is already   *)
(* in memory, then run() and reset() are called.                           *)
(***************************************************************************)
\* the 3-trit words that register contents are built from
WordPool == {ADDRESS_MIN, DR, ADDRESS_MAX}

\* register contents: a high word followed by a low word
RegPool == {h \o l : h \in WordPool, l \in WordPool}

\* put_low and put_high with each pooled operand
PutPool ==
    {o \o a : o \in {<<"-", "+", "+">>, <<"+", "-", "-">>}, a \in OperandPool}

\* the program of TestProcessor.test_add
TestAddProgram ==
    << <<"-", "+", "+", "0", "0", "+">>,
       <<"0", "0", "+", "0", "0", "+">>,
       <<"0", "+", "-", "0", "0", "+">> >>

\* program memory holding 'instructions' in consecutive slots from address
\* a0 on (wrapping after the last slot) and zero trits everywhere else
ProgramAt(a0, instructions) ==
    [i \in 1..PROGRAM_SIZE |->
        LET slot == (i - 1) \div INSTRUCTION_SIZE
            k == (slot - UInt_int(a0)) % PROGRAM_SLOTS
        IN  IF k < Len(instructions)
                THEN instructions[k + 1][((i - 1) % INSTRUCTION_SIZE) + 1]
            ELSE TRIT_ZERO]

\* jump_zero and jump_nonzero with each pooled operand
JumpPool ==
    {o \o a : o \in {<<"0", "+", "0">>, <<"0", "-", "0">>}, a \in OperandPool}

\* every opcode, registered or not, with the operand 00+
OpcodePool == {o \o <<"0", "0", "+">> : o \in [1..OPCODE_SIZE -> Trit]}

\* every registered opcode with the operand 000 (dr itself) or 00+
DataPool ==
    {o \o a : o \in DOMAIN INSTRUCTIONS, a \in {DR, <<"0", "0", "+">>}}

\* an idle processor that has been run before, with ip = a0, dr = d, every
\* other register = r and 'instructions' in memory from a0 on
CycleStart(a0, instructions, d, r) ==
    /\ ip = a0
    /\ ir = Repeat(TRIT_ZERO, INSTRUCTION_SIZE)
    /\ registers = [a \in Addresses |-> IF a = DR THEN d ELSE r]
    /\ program = ProgramAt(a0, instructions)
    /\ outputs = <<>>
    /\ stop = FALSE
    /\ pc = "idle"
    /\ last = "set_program"
    /\ raised = "none"
    /\ steps = <<>>
    /\ entry = [ip |-> a0,
                registers |-> [a \in Addresses |-> IF a = DR THEN d ELSE r]]
    /\ runs = MaxRuns - 1
    /\ at = ADDRESS_MIN

\* the starts drawn: every opcode at every address; the jumps at every
\* address with dr zero and non-zero; every instruction on pooled register
\* contents; two puts in a row; the program of test_add
InitCycle ==
    /\ Lib_init
    /\ \/ \E a0 \in Addresses, i1 \in OpcodePool :
              CycleStart(a0, <<i1>>, Repeat(TRIT_ZERO, REGISTER_SIZE),
                         <<"0", "0", "0", "0", "+", "-">>)
       \/ \E a0 \in Addresses, i1 \in JumpPool,
              d \in {Repeat(TRIT_ZERO, REGISTER_SIZE),
                     <<"0", "0", "0", "0", "0", "+">>} :
              CycleStart(a0, <<i1>>, d, <<"0", "0", "0", "0", "+", "-">>)
       \/ \E i1 \in DataPool, d \in RegPool, r \in RegPool :
              CycleStart(ADDRESS_MAX, <<i1>>, d, r)
       \/ \E i1 \in PutPool, i2 \in PutPool, d \in RegPool :
              CycleStart(ADDRESS_MAX, <<i1, i2>>, d,
                         Repeat(TRIT_ZERO, REGISTER_SIZE))
       \/ CycleStart(ADDRESS_MIN, TestAddProgram,
                     Repeat(TRIT_ZERO, REGISTER_SIZE),
                     Repeat(TRIT_ZERO, REGISTER_SIZE))

NextCycle ==
    \/ Reset
    \/ Run
    \/ Fetch
    \/ Increment
    \/ Execute

\* one T3 processor run from any address
SpecCycle == InitCycle /\ [][NextCycle]_vars

(***************************************************************************)
(* set_program called any number of times on one processor, with texts     *)
(* around the two ends of the range of lengths, and run() called between.  *)
(***************************************************************************)
\* lengths of the texts: within MaxText of empty and of the memory size
TextLengths ==
    (0..MaxText) \cup ((PROGRAM_SIZE - MaxText)..(PROGRAM_SIZE + MaxText))

\* the texts: the glyph - repeated, one with a symbol that is no trit, and
\* the program of TestProcessor.test_add
Texts ==
    {Repeat(NEG, n) : n \in TextLengths}
    \cup {<<"-", "+", "+", "0", "$", "+">>}
    \cup {Flatten(TestAddProgram)}

\* set_program(text) on whatever the memory holds; args records the text
SetProgramText ==
    /\ pc = "idle"
    /\ \E text \in Texts :
        LET r == T3_set_program(program, text)
        IN  /\ program' = r.value
            /\ raised' = r.raised
            /\ last' = "set_program"
            /\ args' = <<text>>
    /\ UNCHANGED <<ip, ir, registers, outputs, stop, pc, steps, entry, runs, at>>
    /\ UNCHANGED <<op, out>>

NextLoad ==
    \/ SetProgramText
    \/ Run
    \/ Fetch
    \/ Increment
    \/ Execute

\* one T3 processor whose program memory is written again and again, and
\* run in between
SpecLoad == Init /\ [][NextLoad]_vars

(***************************************************************************)
(* Programs without jumps, of every length that leaves a slot free, loaded *)
(* into a reset processor by set_program and run once.  run() is called    *)
(* after set_program and its loop goes on until the stop flag is set or an *)
(* error is raised: the steps are weakly fair.                             *)
(***************************************************************************)
\* the numbers of instructions: up to one less than the memory has slots
TermLengths == 0..(PROGRAM_SLOTS - 1)

\* every registered opcode but halt and the jumps, with the operand 00+
StraightPool ==
    {o \o <<"0", "0", "+">> :
        o \in DOMAIN INSTRUCTIONS \ (JumpOpcodes \cup {<<"0", "0", "0">>})}

RECURSIVE InOrder(_)
\* the instructions of the set S in the order of their unsigned values
InOrder(S) ==
    IF S = {} THEN <<>>
    ELSE LET m == CHOOSE x \in S : \A y \in S : UInt_int(x) <= UInt_int(y)
         IN  <<m>> \o InOrder(S \ {m})

StraightSeq == InOrder(StraightPool)

\* the programs: put_low 00+ repeated, in every length; the instructions of
\* StraightPool in turn, in the lengths 1, once each, and as many as leave
\* one slot free; and as many put_low 00+ as leave one slot free, with a
\* halt (operand ++-) in each place
TermPrograms ==
    {[k \in 1..n |-> <<"-", "+", "+", "0", "0", "+">>] : n \in TermLengths}
    \cup {[k \in 1..n |->
              StraightSeq[((k - 1) % Cardinality(StraightPool)) + 1]] :
              n \in {1, Cardinality(StraightPool), PROGRAM_SLOTS - 1}}
    \cup {[k \in 1..(PROGRAM_SLOTS - 1) |->
              IF k = h THEN <<"0", "0", "0", "+", "+", "-">>
              ELSE <<"-", "+", "+", "0", "0", "+">>] :
              h \in 1..(PROGRAM_SLOTS - 1)}

\* a reset processor after set_program(p) for a program p of TermPrograms
InitTerm ==
    /\ Lib_init
    /\ \E p \in TermPrograms :
        /\ ip = Register_put(Repeat(TRIT_ZERO, ADDRESS_SIZE), ADDRESS_MIN)
        /\ ir = Repeat(TRIT_ZERO, INSTRUCTION_SIZE)
        /\ registers = [a \in Addresses |-> Repeat(TRIT_ZERO, REGISTER_SIZE)]
        /\ program =
               T3_set_program(Repeat(TRIT_ZERO, PROGRAM_SIZE), Flatten(p)).value
        /\ outputs = <<>>
        /\ stop = FALSE
        /\ pc = "idle"
        /\ last = "set_program"
        /\ raised = "none"
        /\ steps = <<>>
        /\ entry = [ip |-> ADDRESS_MIN,
                    registers |->
                        [a \in Addresses |-> Repeat(TRIT_ZERO, REGISTER_SIZE)]]
        /\ runs = MaxRuns - 1
        /\ at = ADDRESS_MIN

NextTerm ==
    \/ Run
    \/ Fetch
    \/ Increment
    \/ Execute

\* one run of a program without jumps
SpecTerm == InitTerm /\ [][NextTerm]_vars /\ WF_vars(NextTerm)

(***************************************************************************)
(* One composite gate, built by one of the four constructors and then      *)
(* evaluated any number of times.  op names the constructor, out.gate is   *)
(* the instance, args the inputs of the latest evaluate call and out.value *)
(* what it returned; out.calls counts the calls up to MaxCalls.            *)
(***************************************************************************)
Gates ==
    ("not_gate" :> not_gate) @@ ("and_gate" :> and_gate) @@
    ("or_gate" :> or_gate) @@ ("xor_gate" :> xor_gate)

InitGate ==
    /\ T3_init
    /\ \E g \in DOMAIN Gates :
        /\ op = g
        /\ args = <<>>
        /\ out = [raised |-> "none", value |-> <<>>, gate |-> Gates[g],
                  calls |-> 0]

Gate_Evaluate ==
    /\ out.calls < MaxCalls
    /\ \E values \in [1..Len(out.gate.inputs) -> Trit] :
        LET r == Primitive_evaluate(out.gate, values)
        IN  /\ args' = values
            /\ out' = [raised |-> "none", value |-> r.value, gate |-> r.self,
                       calls |-> out.calls + 1]
    /\ UNCHANGED op
    /\ UNCHANGED t3vars

NextGate == Gate_Evaluate

\* one gate instance evaluated again and again
SpecGate == InitGate /\ [][NextGate]_vars

(***************************************************************************)
(* One Register, created and then assigned to any number of times.  out    *)
(* holds the register (out.value) and what the last call raised; args      *)
(* holds the contents before the last call, then its arguments.  A call    *)
(* that raises has not reached the assignment to self.trits, so the        *)
(* contents stay as they were.  After each call the caller goes on         *)
(* (Register_Next) and makes the next call.                                *)
(***************************************************************************)
\* index and slice bounds, from one before the start to one past the end
Keys == (0 - MaxRegister - 1)..(MaxRegister + 1)

\* single symbols assigned to an index: the trits, an alias and a symbol
\* that is no trit
ItemValues == {"-", "0", "+", "1", "$"}

\* sequences assigned to a slice or put
SliceValues == TritSeqs(MaxRegister) \cup {<<"$">>, <<"+", "$">>}

InitRegister ==
    /\ T3_init
    /\ op = "Register"
    /\ \E content \in TritSeqs(MaxRegister), length \in 1..MaxRegister :
        /\ args = <<content, length>>
        /\ out = Register_init(content, length)

\* a call has been made and its outcome not yet taken up by the caller
Called == op \in {"setitem", "setslice", "put", "clear"}

\* reg[key] = value
Register_SetItem ==
    /\ ~Called
    /\ \E key \in Keys, value \in ItemValues :
        LET r == Register_setitem(out.value, key, value)
        IN  /\ op' = "setitem"
            /\ args' = <<out.value, key, value>>
            /\ out' = [raised |-> r.raised,
                       value |-> IF r.raised = "none" THEN r.value
                                 ELSE out.value]
    /\ UNCHANGED t3vars

\* reg[start:stop] = value
Register_SetSlice ==
    /\ ~Called
    /\ \E start \in Keys, stop_ \in Keys, value \in SliceValues :
        LET r == Register_setslice(out.value, start, stop_, value)
        IN  /\ op' = "setslice"
            /\ args' = <<out.value, start, stop_, value>>
            /\ out' = [raised |-> r.raised,
                       value |-> IF r.raised = "none" THEN r.value
                                 ELSE out.value]
    /\ UNCHANGED t3vars

\* reg.put(trits)
Register_Put ==
    /\ ~Called
    /\ \E trits \in SliceValues :
        LET r == Register_put_symbols(out.value, trits)
        IN  /\ op' = "put"
            /\ args' = <<out.value, trits>>
            /\ out' = [raised |-> r.raised,
                       value |-> IF r.raised = "none" THEN r.value
                                 ELSE out.value]
    /\ UNCHANGED t3vars

\* reg.clear()
Register_Clear ==
    /\ ~Called
    /\ op' = "clear"
    /\ args' = <<out.value>>
    /\ out' = Ok(Register_clear(out.value))
    /\ UNCHANGED t3vars

\* the caller has seen the outcome of the call (it caught the error, if
\* any) and still holds the same register
Register_Next ==
    /\ Called
    /\ op' = "next"
    /\ args' = <<>>
    /\ out' = Ok(out.value)
    /\ UNCHANGED t3vars

NextRegister ==
    \/ Register_Next
    \/ Register_SetItem
    \/ Register_SetSlice
    \/ Register_Put
    \/ Register_Clear

\* one Register under any sequence of assignments
SpecRegister == InitRegister /\ [][NextRegister]_vars

(***************************************************************************)
(* Reference arithmetic the properties are stated against.                 *)
(***************************************************************************)
Digit(t) == CASE t = "-" -> 0 - 1 [] t = "0" -> 0 [] t = "+" -> 1

UDigit(t) == CASE t = "-" -> 0 [] t = "0" -> 1 [] t = "+" -> 2

RECURSIVE Value(_)
\* signed value of a trit sequence: sum of digit * 3^position
Value(s) ==
    IF Len(s) = 0 THEN 0
    ELSE 3 * Value(SubSeq(s, 1, Len(s) - 1)) + Digit(s[Len(s)])

RECURSIVE UValue(_)
\* unsigned value of a trit sequence, digits 0/1/2
UValue(s) ==
    IF Len(s) = 0 THEN 0
    ELSE 3 * UValue(SubSeq(s, 1, Len(s) - 1)) + UDigit(s[Len(s)])

Min(x, y) == IF x < y THEN x ELSE y

Max(x, y) == IF x > y THEN x ELSE y

\* x / y truncated toward zero
TruncDiv(x, y) ==
    LET q == Abs(x) \div Abs(y)
    IN  IF (x < 0) # (y < 0) THEN 0 - q ELSE q

\* largest magnitude that n balanced trits hold
MaxMagnitude(n) == ((3 ^ n) - 1) \div 2

\* the six trits of program memory 'prog' that make up instruction slot u
Slot(prog, u) == SubSeq(prog, 6 * u + 1, 6 * u + 6)

\* the first three and the last three trits of an instruction
Opcode(ins) == SubSeq(ins, 1, 3)

Operand(ins) == SubSeq(ins, 4, 6)

Zero6 == <<"0", "0", "0", "0", "0", "0">>

\* the order of the steps in a cycle
CycleOrder == <<"fetch", "increment", "execute">>

(***************************************************************************)
(* Properties.                                                             *)
(***************************************************************************)
\* C1: for all Int a, b with int(b) # 0, divmod(a, b) returns (q, r) with
\* int(q) = int(a) / int(b) truncated toward zero and
\* int(r) = int(a) - int(q) * int(b); a // b and a % b are these components.
C1_TruncatingDivmod ==
    LET a == Value(args[1])
        b == Value(args[2])
    IN  /\ (op = "divmod" /\ b # 0) =>
              /\ out.raised = "none"
              /\ Value(out.value[1].trits) = TruncDiv(a, b)
              /\ Value(out.value[2].trits) = a - TruncDiv(a, b) * b
        /\ (op = "floordiv" /\ b # 0) =>
              /\ out.raised = "none"
              /\ Value(out.value.trits) = TruncDiv(a, b)
        /\ (op = "mod" /\ b # 0) =>
              /\ out.raised = "none"
              /\ Value(out.value.trits) = a - TruncDiv(a, b) * b

\* C2: for every machine integer n, int(Int(n)) = n and Int(n) is the
\* minimal numeral: the single trit 0 for n = 0, else a non-zero leading trit.
C2_IntRoundTrip ==
    op = "Int" =>
        /\ Int_int(out) = args[1]
        /\ Value(out) = args[1]
        /\ args[1] = 0 => out = <<"0">>
        /\ args[1] # 0 => (Len(out) > 0 /\ out[1] # "0")

C2_Witness ==
    /\ op = "Int"
    /\ args[1] = 0 - 7
    /\ out = <<"-", "+", "-">>

\* C3: int(a + b) = int(a) + int(b) and int(a - b) = int(a) - int(b); the
\* result has max(len(a), len(b)) trits, plus one leading trit exactly when
\* the carry out of the most significant position is non-zero, that is when
\* the result does not fit in max(len(a), len(b)) trits.
C3_AddSub ==
    LET a == Value(args[1])
        b == Value(args[2])
        n == Max(Len(args[1]), Len(args[2]))
        v == IF op = "add" THEN a + b ELSE a - b
    IN  op \in {"add", "sub"} =>
            /\ Int_int(out) = v
            /\ Value(out) = v
            /\ Len(out) = n + (IF Abs(v) > MaxMagnitude(n) THEN 1 ELSE 0)

C3_Witness ==
    /\ op = "add"
    /\ args = << <<"+", "+">>, <<"+">> >>
    /\ out = <<"+", "-", "-">>

\* C4: int(a * b) = int(a) * int(b) for operands of any lengths and signs;
\* the result is the single-trit zero when either operand has value zero.
C4_Mul ==
    LET a == Value(args[1])
        b == Value(args[2])
    IN  op = "mul" =>
            /\ Int_int(out) = a * b
            /\ Value(out) = a * b
            /\ (a = 0 \/ b = 0) => out = <<"0">>

C4_Witness ==
    /\ op = "mul"
    /\ args = << <<"-", "+">>, <<"0", "0">> >>
    /\ out = <<"0">>

\* C5: divmod, // and % raise ZeroDivisionError for every divisor of value
\* zero, whatever its length, and for every dividend, zero included.
C5_ZeroDivision ==
    (op \in {"divmod", "floordiv", "mod"} /\ Value(args[2]) = 0) =>
        out.raised = "ZeroDivisionError"

C5_Witness ==
    /\ op = "mod"
    /\ args = << <<"0">>, <<"0", "0">> >>
    /\ out.raised = "ZeroDivisionError"

\* C6: for content of any length n and requested length L > 0,
\* Trits(content, L) and Register(content, L) hold exactly L trits: the
\* content if n = L, its rightmost L trits if n > L, and L - n zero trits
\* followed by the content if n < L.
C6_FixedWidth ==
    (op \in {"Trits", "Register"} /\ args[2] > 0) =>
        LET content == args[1]
            n == Len(content)
            L == args[2]
        IN  /\ out.raised = "none"
            /\ Len(out.value) = L
            /\ n = L => out.value = content
            /\ n > L => \A i \in 1..L : out.value[i] = content[n - L + i]
            /\ n < L =>
                  /\ \A i \in 1..(L - n) : out.value[i] = "0"
                  /\ \A i \in 1..n : out.value[L - n + i] = content[i]

C6_Witness ==
    /\ op = "Register"
    /\ args = << <<"-", "-", "-", "0">>, 2 >>
    /\ out.raised = "none"
    /\ out.value = <<"-", "0">>

\* C7: for trit sequences a and b of possibly different lengths, the empty
\* one included, each of <, <=, ==, !=, >, >= agrees with the comparison of
\* their signed numeric values.
C7_Comparison ==
    LET a == Value(args[1])
        b == Value(args[2])
    IN  op = "cmp" =>
            /\ out.lt = (a < b)
            /\ out.le = (a <= b)
            /\ out.eq = (a = b)
            /\ out.ne = (a # b)
            /\ out.gt = (a > b)
            /\ out.ge = (a >= b)

C7_Witness ==
    /\ op = "cmp"
    /\ args = << <<"+">>, <<"0", "0", "+">> >>
    /\ out.eq
    /\ ~out.lt

\* C8: over all 9 pairs of trits read as -1/0/1: a & b is min(a, b), a | b is
\* max(a, b), a ^ b is -(a * b), a * b is the product and equals ~(a ^ b),
\* and -a and ~a are the negation.
C8_TruthTables ==
    op = "trit" =>
        LET a == Digit(args[1])
            b == Digit(args[2])
        IN  /\ Digit(out.and) = Min(a, b)
            /\ Digit(out.or) = Max(a, b)
            /\ Digit(out.xor) = 0 - (a * b)
            /\ Digit(out.mul) = a * b
            /\ out.mul = out.invert_xor
            /\ Digit(out.neg) = 0 - a
            /\ Digit(out.invert) = 0 - a

C8_Witness ==
    /\ op = "trit"
    /\ args = <<"-", "+">>
    /\ out.xor = "+"
    /\ out.mul = "-"

\* C9: for n >= 0, int(UInt(n)) = n and UInt(n) is the minimal base-3 numeral
\* (UInt(0) is '-'); for every L with 3^L > n, UInt(n, L) has L trits and
\* int(UInt(n, L)) = n; UInt(n) for n < 0 raises the construction error.
C9_UInt ==
    /\ (op = "UInt" /\ args[1] >= 0) =>
          /\ out.raised = "none"
          /\ UInt_int(out.value) = args[1]
          /\ args[1] = 0 => out.value = <<"-">>
          /\ args[1] > 0 => out.value[1] # "-"
    /\ (op = "UInt_length" /\ args[1] >= 0 /\ args[2] >= 0
            /\ 3 ^ args[2] > args[1]) =>
          /\ out.raised = "none"
          /\ Len(out.value) = args[2]
          /\ UInt_int(out.value) = args[1]
    /\ (op = "UInt" /\ args[1] < 0) => out.raised = "ValueError"

\* C10: on a fresh or reset T3 (ip at the first address, every general
\* register zero) whose program memory is entirely zero, run() performs
\* exactly one fetch, one increment and one execute (of halt) and returns,
\* leaving ip at unsigned value 1 and every general register all-zero.
C10_ZeroProgramHalts ==
    (/\ last = "run"
     /\ pc = "idle"
     /\ ProgramBlank
     /\ entry.ip = ADDRESS_MIN
     /\ \A a \in Addresses : Value(entry.registers[a]) = 0) =>
        /\ raised = "none"
        /\ stop
        /\ steps = <<"fetch", "increment", "execute">>
        /\ UValue(ip) = 1
        /\ \A a \in Addresses : registers[a] = <<"0", "0", "0", "0", "0", "0">>

C10_Witness ==
    /\ last = "run"
    /\ pc = "idle"
    /\ ProgramBlank
    /\ entry.ip = ADDRESS_MIN
    /\ runs = 1
    /\ steps = <<"fetch", "increment", "execute">>
    /\ ip = <<"-", "-", "0">>
    /\ ir = <<"0", "0", "0", "0", "0", "0">>
    /\ stop

\* C11: in every run() the steps come in the repeating order fetch,
\* increment, execute; run() returns normally only right after an execute
\* step in which the halt instruction (opcode 000) set the stop flag; at that
\* return the unsigned value of ip is (address of the fetched halt + 1) mod 27.
C11_RunOrder ==
    /\ [](/\ \A i \in 1..Len(steps) : steps[i] = CycleOrder[((i - 1) % 3) + 1]
          /\ pc = "increment" => Len(steps) % 3 = 1
          /\ pc = "execute" => Len(steps) % 3 = 2
          /\ (last = "run" /\ pc \in {"fetch", "idle"}) => Len(steps) % 3 = 0
          /\ (last = "run" /\ pc = "idle" /\ raised = "none") =>
                /\ Len(steps) > 0
                /\ stop
                /\ Opcode(ir) = <<"0", "0", "0">>
                /\ ir = Slot(program, UValue(at))
                /\ UValue(ip) = (UValue(at) + 1) % 27)
    /\ [][(pc # "idle" /\ pc' = "idle" /\ raised' = "none") =>
             /\ pc = "execute"
             /\ Opcode(ir) = <<"0", "0", "0">>
             /\ ~stop
             /\ stop']_vars

C11_Witness ==
    /\ last = "run"
    /\ pc = "idle"
    /\ raised = "none"
    /\ stop
    /\ at = <<"+", "+", "+">>
    /\ ip = <<"-", "-", "-">>
    /\ steps = <<"fetch", "increment", "execute">>

\* C12: for each of the 27 contents of ip, increment() takes its unsigned
\* value u to (u + 1) mod 27, although it is computed as the signed sum
\* written back through the 3-trit register; '+++' becomes '---'.
C12_IncrementWraps ==
    [][Increment =>
          /\ Len(ip') = 3
          /\ UValue(ip') = (UValue(ip) + 1) % 27
          /\ ip = <<"+", "+", "+">> => ip' = <<"-", "-", "-">>]_vars

C12_Witness ==
    /\ pc = "execute"
    /\ steps = <<"fetch", "increment">>
    /\ entry.ip = <<"+", "+", "+">>
    /\ at = <<"+", "+", "+">>
    /\ ip = <<"-", "-", "-">>

\* C13: executing add (0+-) or sub (0-+) with operand a sets dr to the 6-trit
\* numeral of the one value in -364..364 congruent modulo 729 to
\* int(dr) + int(registers[a]) (resp. int(dr) - int(registers[a])): exact
\* when that fits in 6 trits, wrapped otherwise; no other register changes;
\* the program -++00+, 00+00+, 0+-00+ ends with dr = 0000+-.
C13_AddSubWrap ==
    /\ [][(Execute /\ Opcode(ir) \in {<<"0", "+", "-">>, <<"0", "-", "+">>}) =>
             LET x == Value(registers[DR])
                 y == Value(registers[Operand(ir)])
                 v == IF Opcode(ir) = <<"0", "+", "-">> THEN x + y ELSE x - y
                 w == Value(registers'[DR])
             IN  /\ raised' = "none"
                 /\ Len(registers'[DR]) = 6
                 /\ w >= 0 - 364 /\ w <= 364
                 /\ (w - v) % 729 = 0
                 /\ Abs(v) <= 364 => w = v
                 /\ \A b \in Addresses \ {DR} : registers'[b] = registers[b]]_vars
    /\ []((/\ last = "run"
           /\ pc = "idle"
           /\ raised = "none"
           /\ entry.ip = <<"-", "-", "-">>
           /\ \A b \in Addresses : entry.registers[b] = Zero6
           /\ Slot(program, 0) = <<"-", "+", "+", "0", "0", "+">>
           /\ Slot(program, 1) = <<"0", "0", "+", "0", "0", "+">>
           /\ Slot(program, 2) = <<"0", "+", "-", "0", "0", "+">>
           /\ \A u \in 3..26 : Slot(program, u) = Zero6) =>
              registers[DR] = <<"0", "0", "0", "0", "+", "-">>)

\* sub wrapped: -364 - 364 = -728, congruent to 1
C13_Witness ==
    /\ pc = "fetch"
    /\ steps = <<"fetch", "increment", "execute">>
    /\ ir = <<"0", "-", "+", "0", "0", "+">>
    /\ entry.registers[DR] = <<"-", "-", "-", "-", "-", "-">>
    /\ entry.registers[<<"0", "0", "+">>] = <<"+", "+", "+", "+", "+", "+">>
    /\ registers[DR] = <<"0", "0", "0", "0", "0", "+">>

\* C14: after a cycle that executes jump_zero (0+0) with operand a, fetched
\* from address j, ip = a if dr is all-zero and else ip has unsigned value
\* (j + 1) mod 27; jump_nonzero (0-0) does the same with the condition
\* inverted; no general register changes, and the next fetch reads the slot
\* whose index is the unsigned value of ip.
C14_Jumps ==
    /\ [][(Execute /\ Opcode(ir) \in {<<"0", "+", "0">>, <<"0", "-", "0">>}) =>
             LET zero == \A i \in 1..6 : registers[DR][i] = "0"
                 taken == IF Opcode(ir) = <<"0", "+", "0">> THEN zero ELSE ~zero
             IN  /\ raised' = "none"
                 /\ ir = Slot(program, UValue(at))
                 /\ taken => ip' = Operand(ir)
                 /\ ~taken => UValue(ip') = (UValue(at) + 1) % 27
                 /\ registers' = registers
                 /\ pc' = "fetch"]_vars
    /\ [][Fetch => ir' = Slot(program, UValue(ip))]_vars

\* jump_nonzero at address 5 with dr = 1 is taken to 00+
C14_Witness ==
    /\ pc = "fetch"
    /\ steps = <<"fetch", "increment", "execute">>
    /\ ir = <<"0", "-", "0", "0", "0", "+">>
    /\ at = <<"-", "0", "+">>
    /\ registers[DR] = <<"0", "0", "0", "0", "0", "+">>
    /\ ip = <<"0", "0", "+">>

\* C15: each of the 10 three-trit opcodes that are not among the 17
\* registered ones makes execute raise the unrecognised-opcode error, which
\* aborts run() with the stop flag unset; the failing execute changes no
\* general register, no program memory and no output, so only ip (already
\* incremented) and ir differ from the state before the cycle.
C15_BadOpcode ==
    /\ [](/\ Cardinality(DOMAIN INSTRUCTIONS) = 17
          /\ Cardinality([1..3 -> Trit] \ DOMAIN INSTRUCTIONS) = 10
          /\ (last = "run" /\ pc = "idle" /\ raised # "none") =>
                /\ raised = "ValueError"
                /\ ~stop
                /\ Opcode(ir) \notin DOMAIN INSTRUCTIONS
          /\ (last = "run" /\ pc = "idle" /\ raised # "none"
                /\ Len(steps) = 3) =>
                /\ registers = entry.registers
                /\ UValue(ip) = (UValue(entry.ip) + 1) % 27
                /\ ir = Slot(program, UValue(entry.ip)))
    /\ [][(Execute /\ Opcode(ir) \notin DOMAIN INSTRUCTIONS) =>
             /\ raised' = "ValueError"
             /\ pc' = "idle"
             /\ ~stop'
             /\ UNCHANGED <<ip, ir, registers, program, outputs>>]_vars
    /\ [][(Fetch \/ Increment) => UNCHANGED <<registers, program, outputs>>]_vars

C15_Witness ==
    /\ last = "run"
    /\ pc = "idle"
    /\ raised = "ValueError"
    /\ ~stop
    /\ steps = <<"fetch", "increment", "execute">>
    /\ ir = <<"+", "0", "-", "0", "0", "+">>
    /\ entry.ip = <<"0", "0", "0">>
    /\ ip = <<"0", "0", "+">>
    /\ entry.registers[<<"+", "+", "+">>] = <<"0", "0", "0", "0", "+", "-">>
    /\ registers = entry.registers

\* C16: set_program(p) is accepted for every program p of valid trits with
\* len(p) <= 162, exactly 162 included, and is rejected with an error for
\* every p with len(p) > 162.
C16_ProgramLength ==
    last = "set_program" =>
        LET p == args[1]
            valid == \A i \in 1..Len(p) : p[i] \in {"-", "0", "+"}
        IN  /\ (valid /\ Len(p) <= 162) => raised = "none"
            /\ Len(p) > 162 => raised = "ValueError"

C16_Witness ==
    /\ last = "set_program"
    /\ Len(args[1]) = 162
    /\ raised = "none"
    /\ program = args[1]
    /\ program[162] = "-"

\* C17: a Register created with length L holds exactly L trits after any
\* sequence of index assignments, slice assignments, put and clear calls,
\* whether each call succeeds or is rejected; a slice assignment whose value
\* count differs from the slice length, and an index assignment outside
\* 0..L-1 (or its negative equivalents -L..-1), is rejected and leaves the
\* register contents unchanged.
C17_RegisterLength ==
    /\ [](/\ op = "Register" => Len(out.value) = args[2]
          /\ \A i \in 1..Len(out.value) : out.value[i] \in {"-", "0", "+"}
          /\ op = "setslice" =>
                LET L == Len(args[1])
                    lo == IF args[2] < 0 THEN Max(args[2] + L, 0)
                          ELSE Min(args[2], L)
                    hi == IF args[3] < 0 THEN Max(args[3] + L, 0)
                          ELSE Min(args[3], L)
                IN  Len(args[4]) # Max(hi - lo, 0) =>
                        (out.raised # "none" /\ out.value = args[1])
          /\ (op = "setitem"
                /\ (args[2] < 0 - Len(args[1]) \/ args[2] >= Len(args[1]))) =>
                    (out.raised # "none" /\ out.value = args[1])
          /\ (op \in {"setitem", "setslice", "put", "clear"}
                /\ out.raised # "none") => out.value = args[1])
    /\ [][Len(out'.value) = Len(out.value)]_vars

\* r[2] = '+' on a 2-trit register is refused and the register is as before
C17_Witness ==
    /\ op = "setitem"
    /\ args = << <<"+", "-">>, 2, "+" >>
    /\ out.raised = "IndexError"
    /\ out.value = <<"+", "-">>

\* C18: reset(), called in any processor state, sets ir and all 27 general
\* registers (dr included) to all-zero trits, sets ip to the address of the
\* first instruction slot (unsigned value zero, so the next fetch reads
\* program trits 0..5), empties the output log and leaves program memory
\* unchanged.
C18_Reset ==
    /\ [][Reset =>
             /\ ir' = Zero6
             /\ DOMAIN registers' = [1..3 -> Trit]
             /\ Cardinality(DOMAIN registers') = 27
             /\ \A a \in DOMAIN registers' : registers'[a] = Zero6
             /\ Len(ip') = 3
             /\ UValue(ip') = 0
             /\ outputs' = <<>>
             /\ program' = program]_vars
    /\ [][(last = "reset" /\ Run) => ip' = <<"-", "-", "-">>]_vars
    /\ []((last = "run" /\ entry.ip = <<"-", "-", "-">> /\ Len(steps) = 1) =>
              ir = SubSeq(program, 1, 6))

\* reset after a run that left an output, a non-zero ir and non-zero
\* registers, with ip away from the first slot
C18_Witness ==
    /\ last = "reset"
    /\ pc = "idle"
    /\ stop
    /\ Len(steps) = 6
    /\ Slot(program, 26) = <<"0", "+", "+", "0", "0", "+">>
    /\ entry.ip = <<"+", "+", "+">>
    /\ entry.registers[DR] = <<"+", "+", "+", "-", "-", "-">>
    /\ entry.registers[<<"0", "0", "+">>] = <<"-", "-", "-", "+", "+", "+">>
    /\ ip = <<"-", "-", "-">>
    /\ ir = Zero6
    /\ outputs = <<>>
    /\ \A a \in Addresses : registers[a] = Zero6

\* C19: for each of the 27 contents of ip, fetch() sets ir to program memory
\* trits 6u .. 6u+5, u the unsigned value of ip ('---' is 0, '+++' is 26),
\* always a full 6-trit slice inside the 162-trit memory, and changes
\* neither ip, nor program memory, nor any general register.
C19_Fetch ==
    /\ [][Fetch =>
             LET u == UValue(ip)
             IN  /\ u >= 0 /\ 6 * u + 6 <= Len(program)
                 /\ Len(program) = 162
                 /\ Len(ir') = 6
                 /\ \A i \in 1..6 : ir'[i] = program[6 * u + i]
                 /\ UNCHANGED <<ip, program, registers>>]_vars
    /\ [](UValue(<<"-", "-", "-">>) = 0 /\ UValue(<<"+", "+", "+">>) = 26)

C19_Witness ==
    /\ pc = "increment"
    /\ steps = <<"fetch">>
    /\ ip = <<"+", "+", "+">>
    /\ ir = <<"+", "-", "+", "0", "0", "0">>
    /\ SubSeq(program, 157, 162) = ir
    /\ SubSeq(program, 1, 6) = Zero6

\* C20: put_low (-++) with operand x sets the 3 low-order trits of dr to x
\* and leaves its 3 high-order trits unchanged; put_high (+--) with operand y
\* sets the 3 high-order trits to y and leaves the 3 low-order trits
\* unchanged; after both, in either order, dr is y followed by x whatever dr
\* held before; no other register changes.
C20_PutLowHigh ==
    /\ [][(Execute /\ Opcode(ir) = <<"-", "+", "+">>) =>
             /\ raised' = "none"
             /\ registers'[DR] = SubSeq(registers[DR], 1, 3) \o Operand(ir)
             /\ \A b \in Addresses \ {DR} : registers'[b] = registers[b]]_vars
    /\ [][(Execute /\ Opcode(ir) = <<"+", "-", "-">>) =>
             /\ raised' = "none"
             /\ registers'[DR] = Operand(ir) \o SubSeq(registers[DR], 4, 6)
             /\ \A b \in Addresses \ {DR} : registers'[b] = registers[b]]_vars
    /\ []((last = "run" /\ Len(steps) = 6) =>
              LET first == Slot(program, UValue(entry.ip))
                  second == Slot(program, (UValue(entry.ip) + 1) % 27)
              IN  /\ (Opcode(first) = <<"-", "+", "+">>
                        /\ Opcode(second) = <<"+", "-", "-">>) =>
                         registers[DR] = Operand(second) \o Operand(first)
                  /\ (Opcode(first) = <<"+", "-", "-">>
                        /\ Opcode(second) = <<"-", "+", "+">>) =>
                         registers[DR] = Operand(first) \o Operand(second))

\* put_high --- then put_low 00+ over dr = ++++++
C20_Witness ==
    /\ last = "run"
    /\ pc = "fetch"
    /\ Len(steps) = 6
    /\ entry.ip = <<"+", "+", "+">>
    /\ entry.registers[DR] = <<"+", "+", "+", "+", "+", "+">>
    /\ Slot(program, 26) = <<"+", "-", "-", "-", "-", "-">>
    /\ Slot(program, 0) = <<"-", "+", "+", "0", "0", "+">>
    /\ registers[DR] = <<"-", "-", "-", "0", "0", "+">>

\* C21: load (00-) with operand a sets dr to what register a held and changes
\* no other register; save (00+) with operand a sets register a to what dr
\* holds and changes no other register; clear (0--) with operand a sets
\* register a to six zero trits and changes no other register; load 000 and
\* save 000 leave every register as it was.
C21_LoadSaveClear ==
    /\ [][(Execute /\ Opcode(ir) = <<"0", "0", "-">>) =>
             /\ raised' = "none"
             /\ registers'[DR] = registers[Operand(ir)]
             /\ \A b \in Addresses \ {DR} : registers'[b] = registers[b]
             /\ Operand(ir) = DR => registers' = registers]_vars
    /\ [][(Execute /\ Opcode(ir) = <<"0", "0", "+">>) =>
             /\ raised' = "none"
             /\ registers'[Operand(ir)] = registers[DR]
             /\ \A b \in Addresses \ {Operand(ir)} :
                    registers'[b] = registers[b]
             /\ Operand(ir) = DR => registers' = registers]_vars
    /\ [][(Execute /\ Opcode(ir) = <<"0", "-", "-">>) =>
             /\ raised' = "none"
             /\ registers'[Operand(ir)] = Zero6
             /\ \A b \in Addresses \ {Operand(ir)} :
                    registers'[b] = registers[b]]_vars

\* clear 00+ has run over dr = ---+++ and register 00+ = +++---
C21_Witness ==
    /\ last = "run"
    /\ pc = "fetch"
    /\ Len(steps) = 3
    /\ ir = <<"0", "-", "-", "0", "0", "+">>
    /\ entry.registers[DR] = <<"-", "-", "-", "+", "+", "+">>
    /\ entry.registers[<<"0", "0", "+">>] = <<"+", "+", "+", "-", "-", "-">>
    /\ registers[<<"0", "0", "+">>] = Zero6
    /\ registers[DR] = <<"-", "-", "-", "+", "+", "+">>
    /\ registers[ADDRESS_MAX] = <<"+", "+", "+", "-", "-", "-">>

\* C22: log_and (+-+), log_or (-+-) and log_xor (++-) with operand a set each
\* trit i of dr to dr[i] and/or/xor registers[a][i] (minimum, maximum,
\* negated product of the digits; with a = 000 the second operand is dr
\* itself); log_not (--+) sets dr to the trit by trit negation of
\* registers[a]; dr keeps its 6 trits and no other register changes.
C22_Logic ==
    /\ [][(Execute /\ Opcode(ir) = <<"+", "-", "+">>) =>
             /\ raised' = "none"
             /\ Len(registers'[DR]) = 6
             /\ \A i \in 1..6 : Digit(registers'[DR][i]) =
                    Min(Digit(registers[DR][i]),
                        Digit(registers[Operand(ir)][i]))
             /\ \A b \in Addresses \ {DR} : registers'[b] = registers[b]]_vars
    /\ [][(Execute /\ Opcode(ir) = <<"-", "+", "-">>) =>
             /\ raised' = "none"
             /\ Len(registers'[DR]) = 6
             /\ \A i \in 1..6 : Digit(registers'[DR][i]) =
                    Max(Digit(registers[DR][i]),
                        Digit(registers[Operand(ir)][i]))
             /\ \A b \in Addresses \ {DR} : registers'[b] = registers[b]]_vars
    /\ [][(Execute /\ Opcode(ir) = <<"+", "+", "-">>) =>
             /\ raised' = "none"
             /\ Len(registers'[DR]) = 6
             /\ \A i \in 1..6 : Digit(registers'[DR][i]) =
                    0 - (Digit(registers[DR][i])
                           * Digit(registers[Operand(ir)][i]))
             /\ \A b \in Addresses \ {DR} : registers'[b] = registers[b]]_vars
    /\ [][(Execute /\ Opcode(ir) = <<"-", "-", "+">>) =>
             /\ raised' = "none"
             /\ Len(registers'[DR]) = 6
             /\ \A i \in 1..6 : Digit(registers'[DR][i]) =
                    0 - Digit(registers[Operand(ir)][i])
             /\ \A b \in Addresses \ {DR} : registers'[b] = registers[b]]_vars

\* log_xor 00+ has run over dr = ---+++ and register 00+ = +++000
C22_Witness ==
    /\ last = "run"
    /\ pc = "fetch"
    /\ Len(steps) = 3
    /\ ir = <<"+", "+", "-", "0", "0", "+">>
    /\ entry.registers[DR] = <<"-", "-", "-", "+", "+", "+">>
    /\ entry.registers[<<"0", "0", "+">>] = <<"+", "+", "+", "0", "0", "0">>
    /\ registers[<<"0", "0", "+">>] = <<"+", "+", "+", "0", "0", "0">>
    /\ registers[DR] = <<"+", "+", "+", "0", "0", "0">>

\* C23: run() clears the stop flag when it is entered, so a run on a
\* processor whose stop flag is already set still goes through at least one
\* whole fetch, increment, execute cycle, and a run that returns without an
\* error has just executed a halt instruction (opcode 000) that set the flag.
C23_RunClearsStop ==
    /\ [][Run => (~stop' /\ pc' = "fetch" /\ steps' = <<>>)]_vars
    /\ []((last = "run" /\ pc = "idle" /\ raised = "none") =>
              /\ Len(steps) >= 3
              /\ SubSeq(steps, Len(steps) - 2, Len(steps)) = CycleOrder
              /\ stop
              /\ Opcode(ir) = <<"0", "0", "0">>)
    /\ [][(stop' /\ ~stop) => (Halt \/ (Execute /\ Opcode(ir) = <<"0", "0", "0">>))]_vars

\* the second run of a blank memory: the first run halted at address ---,
\* so this one was entered at --0 with the stop flag set, and it has gone
\* through one cycle and halted again
C23_Witness ==
    /\ ProgramBlank
    /\ runs = 2
    /\ last = "run"
    /\ pc = "idle"
    /\ raised = "none"
    /\ entry.ip = <<"-", "-", "0">>
    /\ steps = CycleOrder
    /\ stop
    /\ ip = <<"-", "-", "+">>

\* C24: UTF6t.decode(UTF6t.encode(s)) is s for every string s, whether its
\* code points need one, two, three or more trytes; the encoding has a
\* multiple of 6 trits, and of the trytes of one character the last leads
\* with '-', the first of several with '+' and those in between with '0'.
C24_UTF6tRoundTrip ==
    op = "UTF6t" =>
        /\ out.raised = "none"
        /\ out.value = args[1]
        /\ Len(out.encoded) % 6 = 0
        /\ LET n == Len(out.encoded) \div 6
               lead(k) == out.encoded[6 * (k - 1) + 1]
           IN  /\ Cardinality({k \in 1..n : lead(k) = "-"}) = Len(args[1])
               /\ n > 0 => lead(n) = "-"
               /\ \A k \in 1..n :
                      /\ lead(k) = "+" => (k = 1 \/ lead(k - 1) = "-")
                      /\ lead(k) = "0" => (k > 1 /\ lead(k - 1) # "-")
                      /\ (k > 1 /\ lead(k - 1) # "-") => lead(k) # "+"

\* C25: after a successful set_program(p) the program memory is p followed
\* by 162 - len(p) zero trits, nothing of an earlier longer program being
\* left, and ip, ir, the 27 registers and the output log are as before;
\* run() does not move ip either when it is entered, so its first fetch
\* reads the slot at the address ip held before set_program and run().
C25_SetProgramFrame ==
    /\ []((last = "set_program" /\ raised = "none") =>
              program = args[1] \o [i \in 1..(162 - Len(args[1])) |-> "0"])
    /\ [][SetProgramText => UNCHANGED <<ip, ir, registers, outputs>>]_vars
    /\ [][Run => UNCHANGED <<ip, ir, registers, outputs, program>>]_vars
    /\ [][(Fetch /\ Len(steps) = 0) =>
             (ip = entry.ip /\ ir' = Slot(program, UValue(entry.ip)))]_vars

\* a run of blank memory has left ip at --0; then the program of test_add
\* was loaded, and the next run has fetched its second instruction
C25_Witness ==
    /\ runs = 2
    /\ last = "run"
    /\ steps = <<"fetch">>
    /\ entry.ip = <<"-", "-", "0">>
    /\ ip = <<"-", "-", "0">>
    /\ Len(args) = 1
    /\ args[1] = Flatten(TestAddProgram)
    /\ SubSeq(program, 1, 18) = args[1]
    /\ \A i \in 19..162 : program[i] = "0"
    /\ ir = <<"0", "0", "+", "0", "0", "+">>

\* C26: Trits(content, length) is accepted for length 0 and rejected only
\* for negative lengths; with length 0 the result is the empty sequence
\* whatever the content.
C26_LengthZero ==
    op = "Trits" =>
        /\ (out.raised # "none") = (args[2] < 0)
        /\ args[2] = 0 => out.value = <<>>

\* C27: whenever set_program raises, for a text that is too long or for one
\* with a symbol that is no trit, the program memory is afterwards what it
\* was before the call.
C27_FailedLoadKeepsMemory ==
    [][(SetProgramText /\ raised' # "none") => program' = program]_vars

\* C28: for UInt values a and b of equal or different lengths, each of ==,
\* <, <=, > and >= gives what the same comparison of int(a) and int(b)
\* gives.
C28_UIntComparison ==
    op = "UInt_cmp" =>
        LET a == out.int[1]
            b == out.int[2]
        IN  /\ a = UValue(args[1])
            /\ b = UValue(args[2])
            /\ out.eq = (a = b)
            /\ out.lt = (a < b)
            /\ out.le = (a <= b)
            /\ out.gt = (a > b)
            /\ out.ge = (a >= b)

\* the first slot of the memory whose opcode is 000 (27 if there is none)
FirstHalt(prog) ==
    IF \E u \in 0..26 : Opcode(Slot(prog, u)) = <<"0", "0", "0">>
        THEN CHOOSE u \in 0..26 :
                 /\ Opcode(Slot(prog, u)) = <<"0", "0", "0">>
                 /\ \A v \in 0..(u - 1) :
                        Opcode(Slot(prog, v)) # <<"0", "0", "0">>
    ELSE 27

\* the memory holds registered opcodes only, no jump, and nothing in its
\* last slot, and the latest run was entered at address ---
Straight ==
    /\ entry.ip = <<"-", "-", "-">>
    /\ Slot(program, 26) = Zero6
    /\ \A u \in 0..26 :
           /\ Opcode(Slot(program, u)) \in DOMAIN INSTRUCTIONS
           /\ INSTRUCTIONS[Opcode(Slot(program, u))]
                  \notin {"jump_zero", "jump_nonzero"}

\* C29: from a reset processor, for every program of at most 26
\* instructions with registered opcodes only and no jump, set_program
\* followed by run() terminates: the run goes through at most 27 cycles and
\* returns, without an error, having halted at the first halt instruction
\* of the program or else at the zero slot that follows the program.
C29_StraightTerminates ==
    /\ []((Straight /\ last = "run") => Len(steps) <= 3 * 27)
    /\ []((Straight /\ last = "run" /\ pc = "idle") =>
              /\ raised = "none"
              /\ stop
              /\ UValue(at) = FirstHalt(program)
              /\ ir = Slot(program, FirstHalt(program))
              /\ Len(steps) = 3 * (FirstHalt(program) + 1))
    /\ (Straight ~> (last = "run" /\ pc = "idle"))

\* the 26 instructions of StraightSeq in turn have run and the run has
\* halted at slot 26, the zero slot after the program, in its 27th cycle
C29_Witness ==
    /\ last = "run"
    /\ pc = "idle"
    /\ raised = "none"
    /\ stop
    /\ Len(steps) = 81
    /\ at = <<"+", "+", "+">>
    /\ ir = Zero6
    /\ \A u \in 0..25 : Opcode(Slot(program, u)) # <<"0", "0", "0">>
    /\ Slot(program, 25) # Slot(program, 24)

\* C30: every evaluate(inputs) on one instance of not_gate(), and_gate(),
\* or_gate() or xor_gate() returns the Kleene NOT, AND, OR or XOR of the
\* inputs of that call (negation, minimum, maximum, negated product of the
\* digits), whatever the earlier calls on the instance were given.
C30_GateEvaluate ==
    (op \in DOMAIN Gates /\ out.calls > 0) =>
        /\ Len(out.value) = 1
        /\ Digit(out.value[1]) =
               CASE op = "not_gate" -> 0 - Digit(args[1])
                 [] op = "and_gate" -> Min(Digit(args[1]), Digit(args[2]))
                 [] op = "or_gate" -> Max(Digit(args[1]), Digit(args[2]))
                 [] op = "xor_gate" -> 0 - (Digit(args[1]) * Digit(args[2]))

====
